---- MODULE Spec2Model ----
(***************************************************************************)
(* Iterated Prisoner's Dilemma engine of pd_core.py: the payoff matrix,    *)
(* the per-opponent histories, the strategy set, the pairing generator and *)
(* the Simulator (step, preview_pairs, reset, summary).                    *)
(*                                                                         *)
(* Probabilities are numerators over Scale (p = 1 is Scale, p = 1/2 is     *)
(* Scale \div 2).  A quotient a / b of Python is the reduced fraction      *)
(* <<n, d>>.  The Simulator's own random.Random(seed) is the word stream   *)
(* of CPython's MT19937 for that seed; its state is the seed and the       *)
(* number of words put out, which getstate and setstate copy.  The         *)
(* module-level random.random() used by the stochastic strategies is never *)
(* seeded by the program: each of its draws is an arbitrary value of       *)
(* 0 .. Scale-1 (over Scale).                                              *)
(***************************************************************************)
EXTENDS Integers, Sequences, FiniteSets, TLC

VARIABLES
    sim,        \* the Simulator object: its fields (pd_core.py:276-288)
    agent,      \* name |-> the Agent object of that name: its fields
    report,     \* the dict returned by the latest step(), None before
    preview,    \* <<the list preview_pairs() returned>> if it was the latest call, else <<>>
    previews,   \* number of preview_pairs() calls since the latest step or reset
    shown,      \* <<the list preview_pairs() returned>> if it was called right before
                \* the latest step, else <<>>
    overrides,  \* the overrides argument of the latest step()
    drawn,      \* what the latest step() drew from sim.rng: its calls
    last_op,    \* the latest operation called on the Simulator
    steps,      \* number of step() calls since construction
    resets,     \* number of reset() calls since construction
    sim2,       \* a second Simulator, constructed with the same arguments
    agent2,     \* its agents (same roster composition, separate objects)
    report2     \* the dict returned by its latest step()

vars == <<sim, agent, report, preview, previews, shown, overrides, drawn,
          last_op, steps, resets, sim2, agent2, report2>>

(* ------------------------------ bounds -------------------------------- *)

\* probabilities and delta are multiples of 1/Scale
Scale == 2
\* seeds passed to the constructor: 0 .. MaxSeed
MaxSeed == 1
\* step() is called at most MaxSteps times in a run
MaxSteps == 2
\* reset() is called at most MaxResets times in a run
MaxResets == 1
\* preview_pairs() is called at most MaxPreviews times in a row
MaxPreviews == 2
\* step() is called at most MaxDuelSteps times in a two-agent run
MaxDuelSteps == 6
\* step() is called at most MaxQuadSteps times in a run of four strategies
MaxQuadSteps == 4
\* step() is called at most MaxCoinSteps times in a run of a coin-flipping strategy
MaxCoinSteps == 4

(* ----------------------------- primitives ----------------------------- *)

None == "None"

\* class Action(str, Enum)
C == "C"
D == "D"
Action == {C, D}

Max(a, b) == IF a >= b THEN a ELSE b
Min(a, b) == IF a <= b THEN a ELSE b
Abs(a) == IF a < 0 THEN 0 - a ELSE a

RECURSIVE GCD(_, _)
GCD(a, b) == IF b = 0 THEN a ELSE GCD(b, a % b)

\* Python's true division n / d (d > 0) as a fraction in lowest terms
Div(n, d) ==
    LET g == GCD(Abs(n), d) IN <<n \div g, d \div g>>

\* max(0.0, min(1.0, x)) on numerators over Scale
Clip(x) == Max(0, Min(Scale, x))

\* dict.get(k, default) and d[k] = v on a dict modelled as a function
DictGet(d, k, default) == IF k \in DOMAIN d THEN d[k] ELSE default
DictSet(d, k, v) == [x \in (DOMAIN d) \cup {k} |-> IF x = k THEN v ELSE d[x]]
EmptyDict == [x \in {} |-> 0]

Last(s) == s[Len(s)]

\* the value of an expression, as the one element of {expression}
Only(S) == CHOOSE x \in S : TRUE

\* the elements of a list
SeqToSet(s) == {s[i] : i \in 1..Len(s)}

\* x in s, for a list s
InSeq(x, s) == \E i \in 1..Len(s) : s[i] = x

\* s.count(x)
RECURSIVE Count(_, _)
Count(s, x) ==
    IF s = <<>> THEN 0
    ELSE (IF Head(s) = x THEN 1 ELSE 0) + Count(Tail(s), x)

(* ------------------------------ Payoffs ------------------------------- *)

\* Payoffs.payoff(a_self, a_opp)
PayoffSwapped(pay, a_self, a_opp) ==
    IF a_self = C /\ a_opp = C THEN pay.R
    ELSE IF a_self = C /\ a_opp = D THEN pay.T
    ELSE IF a_self = D /\ a_opp = C THEN pay.S
    ELSE pay.P

Payoff(pay, a_self, a_opp) ==
    IF a_self = C /\ a_opp = C THEN pay.R
    ELSE IF a_self = C /\ a_opp = D THEN pay.S
    ELSE IF a_self = D /\ a_opp = C THEN pay.T
    ELSE pay.P

\* Payoffs() with the dataclass defaults, and the Payoffs(5, 4, 0, -1) of app.py
DefaultPayoffs == [T |-> 5, R |-> 3, P |-> 1, S |-> 0]
AppPayoffs == [T |-> 5, R |-> 4, P |-> 0, S |-> -1]

(* ---------------------------- Agent (base) ---------------------------- *)

\* DyadHistory()
DyadHistory == [my_actions |-> <<>>, opp_actions |-> <<>>, my_payoffs |-> <<>>]

\* Agent.__init__
NewAgent(name, kind) ==
    [name |-> name, kind |-> kind, score |-> 0, memory |-> EmptyDict]

\* Agent._ensure(opp)
Ensure(self, opp) ==
    IF opp \notin DOMAIN self.memory
    THEN [self EXCEPT !.memory = DictSet(self.memory, opp, DyadHistory)]
    ELSE self

\* a last_with that reports a mutually cooperative round where none is recorded
LastWithAssumesCoop(self, opp) ==
    IF opp \notin DOMAIN self.memory \/ self.memory[opp].my_actions = <<>>
    THEN <<C, C, 0>>
    ELSE LET h == self.memory[opp]
         IN <<Last(h.my_actions), Last(h.opp_actions), Last(h.my_payoffs)>>

\* Agent.last_with(opp)
LastWith(self, opp) ==
    IF opp \notin DOMAIN self.memory \/ self.memory[opp].my_actions = <<>>
    THEN <<None, None, None>>
    ELSE LET h == self.memory[opp]
         IN <<Last(h.my_actions), Last(h.opp_actions), Last(h.my_payoffs)>>

\* an observe that does not record the opponent's action
ObserveOwnOnly(self, opp, my_action, opp_action, my_payoff) ==
    LET s == Ensure(self, opp)
        h == s.memory[opp]
    IN [s EXCEPT !.memory[opp] =
                   [my_actions |-> Append(h.my_actions, my_action),
                    opp_actions |-> h.opp_actions,
                    my_payoffs |-> Append(h.my_payoffs, my_payoff)],
                 !.score = self.score + my_payoff]

\* Agent.observe(opp, my_action, opp_action, my_payoff)
Observe(self, opp, my_action, opp_action, my_payoff) ==
    LET s == Ensure(self, opp)
        h == s.memory[opp]
    IN [s EXCEPT !.memory[opp] =
                   [my_actions |-> Append(h.my_actions, my_action),
                    opp_actions |-> Append(h.opp_actions, opp_action),
                    my_payoffs |-> Append(h.my_payoffs, my_payoff)],
                 !.score = self.score + my_payoff]

(* ----------------------------- strategies ----------------------------- *)
(* decide(opp) of each class: the action returned and the agent object    *)
(* after the call (lazily created history, strategy-private dicts).       *)
(* u is the value random.random() returns to a stochastic strategy.       *)

Ret(a, self) == [act |-> a, self |-> self]

\* the switched action: Action.C if my_last == Action.D else Action.D
Flip(a) == IF a = D THEN C ELSE D

\* AlwaysCooperate.decide
DecideAlwaysCooperate(self, opp, u) == Ret(C, self)

\* AlwaysDefect.decide
DecideAlwaysDefect(self, opp, u) == Ret(D, self)

\* a mirror of the agent's own latest action
DecideTitForTatOwn(self, opp, u) ==
    LET my_last == LastWith(self, opp)[1]
    IN Ret(IF my_last = None THEN C ELSE my_last, self)

\* TitForTat.decide
DecideTitForTat(self, opp, u) ==
    LET opp_last == LastWith(self, opp)[2]
    IN Ret(IF opp_last = None THEN C ELSE opp_last, self)

\* WinStayLoseShift.decide
DecideWinStayLoseShift(self, opp, u) ==
    LET my_last == LastWith(self, opp)[1]
        opp_last == LastWith(self, opp)[2]
        good == (my_last = C /\ opp_last = C) \/ (my_last = D /\ opp_last = C)
    IN IF my_last = None THEN Ret(C, self)
       ELSE Ret(IF good THEN my_last ELSE Flip(my_last), self)

\* a trigger that looks at the opponent's latest action only
DecideGrimTriggerForgiving(self, opp, u) ==
    LET s == Ensure(self, opp)
        oa == s.memory[opp].opp_actions
    IN Ret(IF oa # <<>> /\ Last(oa) = D THEN D ELSE C, s)

\* GrimTrigger.decide
DecideGrimTrigger(self, opp, u) ==
    LET s == Ensure(self, opp)
    IN Ret(IF InSeq(D, s.memory[opp].opp_actions) THEN D ELSE C, s)

\* TitForTwoTats.decide
DecideTitForTwoTats(self, opp, u) ==
    LET s == Ensure(self, opp)
        oa == s.memory[opp].opp_actions
        n == Len(oa)
    IN IF n < 2 THEN Ret(C, s)
       ELSE Ret(IF oa[n] = D /\ oa[n - 1] = D THEN D ELSE C, s)

\* SuspiciousTitForTat.decide
DecideSuspiciousTitForTat(self, opp, u) ==
    LET opp_last == LastWith(self, opp)[2]
    IN Ret(IF opp_last = None THEN D ELSE opp_last, self)

\* GenerousTitForTat.decide
DecideGenerousTitForTat(self, opp, u) ==
    LET opp_last == LastWith(self, opp)[2]
    IN IF opp_last = None \/ opp_last = C THEN Ret(C, self)
       ELSE Ret(IF u < self.generosity THEN C ELSE D, self)

\* a grudge whose countdown starts at punish_rounds, the opening Defect not counted
DecideSoftGrudgerFullCountdown(self, opp, u) ==
    LET s == Ensure(self, opp)
        opp_last == LastWith(s, opp)[2]
    IN IF DictGet(s.punish_left, opp, 0) > 0
       THEN Ret(D, [s EXCEPT !.punish_left =
                        DictSet(s.punish_left, opp, s.punish_left[opp] - 1)])
       ELSE IF opp_last = D
       THEN Ret(D, [s EXCEPT !.punish_left =
                        DictSet(s.punish_left, opp, s.punish_rounds)])
       ELSE Ret(C, s)

\* SoftGrudger.decide
DecideSoftGrudger(self, opp, u) ==
    LET s == Ensure(self, opp)
        opp_last == LastWith(s, opp)[2]
    IN IF DictGet(s.punish_left, opp, 0) > 0
       THEN Ret(D, [s EXCEPT !.punish_left =
                        DictSet(s.punish_left, opp, s.punish_left[opp] - 1)])
       ELSE IF opp_last = D
       THEN Ret(D, [s EXCEPT !.punish_left =
                        DictSet(s.punish_left, opp, s.punish_rounds - 1)])
       ELSE Ret(C, s)

\* an alternation counted over all opponents together
DecideAlternatorShared(self, opp, u) ==
    LET n == DictGet(self.count, "*", 0)
        want_C == IF self.start_with_C THEN n % 2 = 0 ELSE n % 2 = 1
    IN Ret(IF want_C THEN C ELSE D,
           [self EXCEPT !.count = DictSet(self.count, "*", n + 1)])

\* Alternator.decide
DecideAlternator(self, opp, u) ==
    LET n == DictGet(self.count, opp, 0)
        want_C == IF self.start_with_C THEN n % 2 = 0 ELSE n % 2 = 1
    IN Ret(IF want_C THEN C ELSE D,
           [self EXCEPT !.count = DictSet(self.count, opp, n + 1)])

\* RandomCooperator.decide
DecideRandomCooperator(self, opp, u) ==
    Ret(IF u < self.p THEN C ELSE D, self)

\* the "tft" and "exploit" branches shared by Prober.decide and Tester.decide
DecideByMode(s, opp, mode) ==
    IF mode = "tft"
    THEN LET opp_last == LastWith(s, opp)[2]
         IN Ret(IF opp_last = None THEN C ELSE opp_last, s)
    ELSE Ret(D, s)

\* a probe whose retaliation window is the first two encounters
DecideProberEarlyWindow(self, opp, u) ==
    LET s == Ensure(self, opp)
        h == s.memory[opp]
        mode == DictGet(s.mode, opp, "probe")
        t == Len(h.my_actions)
        retaliated == \E i \in 1..2 : i <= Len(h.opp_actions) /\ h.opp_actions[i] = D
        chosen == IF retaliated THEN "tft" ELSE "exploit"
    IN IF mode = "probe"
       THEN IF t = 0 THEN Ret(D, s)
            ELSE IF t \in {1, 2} THEN Ret(C, s)
            ELSE DecideByMode([s EXCEPT !.mode = DictSet(s.mode, opp, chosen)],
                              opp, chosen)
       ELSE DecideByMode(s, opp, mode)

\* Prober.decide (its one recursive call runs with the mode just set)
DecideProber(self, opp, u) ==
    LET s == Ensure(self, opp)
        h == s.memory[opp]
        mode == DictGet(s.mode, opp, "probe")
        t == Len(h.my_actions)
        retaliated == \E i \in 2..3 : i <= Len(h.opp_actions) /\ h.opp_actions[i] = D
        chosen == IF retaliated THEN "tft" ELSE "exploit"
    IN IF mode = "probe"
       THEN IF t = 0 THEN Ret(D, s)
            ELSE IF t \in {1, 2} THEN Ret(C, s)
            ELSE DecideByMode([s EXCEPT !.mode = DictSet(s.mode, opp, chosen)],
                              opp, chosen)
       ELSE DecideByMode(s, opp, mode)

\* StochasticWSLS.decide
DecideStochasticWSLS(self, opp, u) ==
    LET my_last == LastWith(self, opp)[1]
        opp_last == LastWith(self, opp)[2]
        won == (my_last = C /\ opp_last = C) \/ (my_last = D /\ opp_last = C)
    IN IF my_last = None THEN Ret(C, self)
       ELSE IF won THEN Ret(my_last, self)
       ELSE Ret(IF u < self.eps THEN Flip(my_last) ELSE my_last, self)

\* Joss.decide
DecideJoss(self, opp, u) ==
    LET opp_last == LastWith(self, opp)[2]
    IN IF opp_last = None THEN Ret(C, self)
       ELSE IF opp_last = C THEN Ret(IF u < self.p THEN D ELSE C, self)
       ELSE Ret(D, self)

\* a contrition entered after mutual defection
DecideContriteAfterMutualDefect(self, opp, u) ==
    LET s0 == Ensure(self, opp)
        s1 == [s0 EXCEPT !.contrite =
                  DictSet(s0.contrite, opp, DictGet(s0.contrite, opp, FALSE))]
        my_last == LastWith(s1, opp)[1]
        opp_last == LastWith(s1, opp)[2]
        s2 == IF my_last = D /\ opp_last = D
              THEN [s1 EXCEPT !.contrite = DictSet(s1.contrite, opp, TRUE)]
              ELSE s1
    IN IF opp_last = None THEN Ret(C, s1)
       ELSE IF s2.contrite[opp]
       THEN Ret(C, [s2 EXCEPT !.contrite = DictSet(s2.contrite, opp, FALSE)])
       ELSE Ret(opp_last, s2)

\* ContriteTitForTat.decide
DecideContriteTitForTat(self, opp, u) ==
    LET s0 == Ensure(self, opp)
        s1 == [s0 EXCEPT !.contrite =
                  DictSet(s0.contrite, opp, DictGet(s0.contrite, opp, FALSE))]
        my_last == LastWith(s1, opp)[1]
        opp_last == LastWith(s1, opp)[2]
        s2 == IF my_last = D /\ opp_last = C
              THEN [s1 EXCEPT !.contrite = DictSet(s1.contrite, opp, TRUE)]
              ELSE s1
    IN IF opp_last = None THEN Ret(C, s1)
       ELSE IF s2.contrite[opp]
       THEN Ret(C, [s2 EXCEPT !.contrite = DictSet(s2.contrite, opp, FALSE)])
       ELSE Ret(opp_last, s2)

\* Gradual.decide
DecideGradual(self, opp, u) ==
    LET s0 == Ensure(self, opp)
        s == [s0 EXCEPT
                !.punish_count = DictSet(@, opp, DictGet(s0.punish_count, opp, 0)),
                !.remaining = DictSet(@, opp, DictGet(s0.remaining, opp, 0)),
                !.repairing = DictSet(@, opp, DictGet(s0.repairing, opp, 0))]
        opp_last == LastWith(s, opp)[2]
    IN IF s.remaining[opp] > 0
       THEN LET left == s.remaining[opp] - 1
            IN Ret(D, [s EXCEPT !.remaining = DictSet(@, opp, left),
                                !.repairing = IF left = 0
                                              THEN DictSet(@, opp, 2) ELSE @])
       ELSE IF s.repairing[opp] > 0
       THEN Ret(C, [s EXCEPT !.repairing = DictSet(@, opp, s.repairing[opp] - 1)])
       ELSE IF opp_last = D
       THEN Ret(D, [s EXCEPT
                      !.punish_count = DictSet(@, opp, s.punish_count[opp] + 1),
                      !.remaining = DictSet(@, opp, s.punish_count[opp] + 1)])
       ELSE Ret(C, s)

\* a test that chooses its mode anew at every decision after the first
DecideTesterRechooses(self, opp, u) ==
    LET s == Ensure(self, opp)
        h == s.memory[opp]
        chosen == IF Last(h.opp_actions) = D THEN "tft" ELSE "exploit"
    IN IF Len(h.my_actions) = 0 THEN Ret(D, s)
       ELSE DecideByMode([s EXCEPT !.mode = DictSet(s.mode, opp, chosen)],
                         opp, chosen)

\* Tester.decide (its one recursive call runs with the mode just set)
DecideTester(self, opp, u) ==
    LET s == Ensure(self, opp)
        mode == DictGet(s.mode, opp, "probe")
        h == s.memory[opp]
        chosen == IF Last(h.opp_actions) = D THEN "tft" ELSE "exploit"
    IN IF mode = "probe"
       THEN IF Len(h.my_actions) = 0 THEN Ret(D, s)
            ELSE DecideByMode([s EXCEPT !.mode = DictSet(s.mode, opp, chosen)],
                              opp, chosen)
       ELSE DecideByMode(s, opp, mode)

\* Majority.decide: count(C) / len >= 0.5
DecideMajority(self, opp, u) ==
    LET s == Ensure(self, opp)
        oa == s.memory[opp].opp_actions
    IN IF oa = <<>> THEN Ret(C, s)
       ELSE Ret(IF 2 * Count(oa, C) >= Len(oa) THEN C ELSE D, s)

\* MemoryOne.decide
DecideMemoryOne(self, opp, u) ==
    LET my_last == LastWith(self, opp)[1]
        opp_last == LastWith(self, opp)[2]
    IN IF opp_last = None
       THEN Ret(IF u < self.p[<<C, C>>] THEN C ELSE D, self)
       ELSE Ret(IF u < self.p[<<my_last, opp_last>>] THEN C ELSE D, self)

\* UserAgent.decide
DecideUserAgent(self, opp, u) ==
    Ret(IF self.next_action # None THEN self.next_action ELSE C, self)

\* a.decide(opp): dispatch on the class of a
Decide(self, opp, u) ==
    CASE self.kind = "AlwaysCooperate" -> DecideAlwaysCooperate(self, opp, u)
      [] self.kind = "AlwaysDefect" -> DecideAlwaysDefect(self, opp, u)
      [] self.kind = "TitForTat" -> DecideTitForTat(self, opp, u)
      [] self.kind = "WinStayLoseShift" -> DecideWinStayLoseShift(self, opp, u)
      [] self.kind = "GrimTrigger" -> DecideGrimTrigger(self, opp, u)
      [] self.kind = "TitForTwoTats" -> DecideTitForTwoTats(self, opp, u)
      [] self.kind = "SuspiciousTitForTat" -> DecideSuspiciousTitForTat(self, opp, u)
      [] self.kind = "GenerousTitForTat" -> DecideGenerousTitForTat(self, opp, u)
      [] self.kind = "SoftGrudger" -> DecideSoftGrudger(self, opp, u)
      [] self.kind = "Alternator" -> DecideAlternator(self, opp, u)
      [] self.kind = "RandomCooperator" -> DecideRandomCooperator(self, opp, u)
      [] self.kind = "Prober" -> DecideProber(self, opp, u)
      [] self.kind = "StochasticWSLS" -> DecideStochasticWSLS(self, opp, u)
      [] self.kind = "Joss" -> DecideJoss(self, opp, u)
      [] self.kind = "ContriteTitForTat" -> DecideContriteTitForTat(self, opp, u)
      [] self.kind = "Gradual" -> DecideGradual(self, opp, u)
      [] self.kind = "Tester" -> DecideTester(self, opp, u)
      [] self.kind = "Majority" -> DecideMajority(self, opp, u)
      [] self.kind = "MemoryOne" -> DecideMemoryOne(self, opp, u)
      [] self.kind = "UserAgent" -> DecideUserAgent(self, opp, u)

\* the classes whose decide calls random.random()
StochasticKinds ==
    {"GenerousTitForTat", "RandomCooperator", "StochasticWSLS", "Joss", "MemoryOne"}

(* ---------------------------- constructors ---------------------------- *)

AlwaysCooperate(name) == NewAgent(name, "AlwaysCooperate")
AlwaysDefect(name) == NewAgent(name, "AlwaysDefect")
TitForTat(name) == NewAgent(name, "TitForTat")
WinStayLoseShift(name) == NewAgent(name, "WinStayLoseShift")
GrimTrigger(name) == NewAgent(name, "GrimTrigger")
TitForTwoTats(name) == NewAgent(name, "TitForTwoTats")
SuspiciousTitForTat(name) == NewAgent(name, "SuspiciousTitForTat")
Majority(name) == NewAgent(name, "Majority")

GenerousTitForTat(name, generosity) ==
    [name |-> name, kind |-> "GenerousTitForTat", score |-> 0, memory |-> EmptyDict,
     generosity |-> Clip(generosity)]

SoftGrudger(name, punish_rounds) ==
    [name |-> name, kind |-> "SoftGrudger", score |-> 0, memory |-> EmptyDict,
     punish_rounds |-> Max(1, punish_rounds), punish_left |-> EmptyDict]

Alternator(name, start_with_C) ==
    [name |-> name, kind |-> "Alternator", score |-> 0, memory |-> EmptyDict,
     start_with_C |-> start_with_C, count |-> EmptyDict]

RandomCooperator(name, coop_prob) ==
    [name |-> name, kind |-> "RandomCooperator", score |-> 0, memory |-> EmptyDict,
     p |-> Clip(coop_prob)]

Prober(name) ==
    [name |-> name, kind |-> "Prober", score |-> 0, memory |-> EmptyDict,
     mode |-> EmptyDict]

StochasticWSLS(name, epsilon) ==
    [name |-> name, kind |-> "StochasticWSLS", score |-> 0, memory |-> EmptyDict,
     eps |-> Clip(epsilon)]

Joss(name, p_defect_after_CC) ==
    [name |-> name, kind |-> "Joss", score |-> 0, memory |-> EmptyDict,
     p |-> Clip(p_defect_after_CC)]

ContriteTitForTat(name) ==
    [name |-> name, kind |-> "ContriteTitForTat", score |-> 0, memory |-> EmptyDict,
     contrite |-> EmptyDict]

Gradual(name) ==
    [name |-> name, kind |-> "Gradual", score |-> 0, memory |-> EmptyDict,
     punish_count |-> EmptyDict, remaining |-> EmptyDict, repairing |-> EmptyDict]

Tester(name) ==
    [name |-> name, kind |-> "Tester", score |-> 0, memory |-> EmptyDict,
     mode |-> EmptyDict]

MemoryOne(name, pCC, pCD, pDC, pDD) ==
    [name |-> name, kind |-> "MemoryOne", score |-> 0, memory |-> EmptyDict,
     p |-> (<<C, C>> :> Clip(pCC)) @@ (<<C, D>> :> Clip(pCD))
           @@ (<<D, C>> :> Clip(pDC)) @@ (<<D, D>> :> Clip(pDD))]

UserAgent(name) ==
    [name |-> name, kind |-> "UserAgent", score |-> 0, memory |-> EmptyDict,
     next_action |-> None]

(* --------------------------- random source ---------------------------- *)

\* 2 ** k
RECURSIVE Pow2(_)
Pow2(k) == IF k = 0 THEN 1 ELSE 2 * Pow2(k - 1)

\* n.bit_length()
RECURSIVE BitLength(_)
BitLength(n) == IF n = 0 THEN 0 ELSE 1 + BitLength(n \div 2)

\* The 32-bit words random.Random(seed) puts out, in order, for the seeds
\* 0, 1, 2, 3 (Words[seed + 1]), as CPython's MT19937 computes them.  Each
\* word is written without its 5 low bits: random() reads a >> 5 and b >> 6,
\* getrandbits(k) reads the top k bits.
Words ==
  <<
    <<
       113336382, 51706749, 101730917, 119486516, 56448162, 5433721,
       34751217, 129582503, 68622131, 65220111, 54349339, 123243325,
       105199665, 111380971, 40709944, 129895916, 63967760, 48056573,
       78300211, 119676667, 121884848, 29318886, 67737923, 18693000,
       37827635, 18756361, 101442323, 12727969, 82996081, 107293997,
       33622391, 132507686, 122104075, 71479480, 131907233, 94646617,
       108745516, 80785928, 121086664, 19724825, 41627302, 13255791,
       97956359, 9897541, 120640032, 114148664, 91802769, 44318320,
       63369922, 75136920, 13515887, 47485068, 58273557, 42439202,
       81991861, 85956173, 122542269, 27444538, 129735710, 74158472,
       64023168, 59417296, 116139932, 69974900, 34962686, 8359024,
       108049005, 123274271, 73645173, 122942698, 1884645, 12518737,
       96597127, 112755134, 53529189, 95328600, 110708818, 105367326,
       89678004, 83921759, 153386, 82127436, 66246899, 111140771,
       116447673, 44712641, 32737163, 98016331, 43648190, 94441303,
       116832671, 8453606, 25644590, 123080202, 76170002, 29756593,
       32026487, 107823147, 129861054, 19125273, 107800923, 72878878,
       60125458, 12242798, 10797254, 133307940, 42957001, 117452227,
       68174638, 133945484, 125202836, 65670960, 14637496, 40459503,
       73989837, 39069528, 94833067, 16751810, 73476275, 44661017,
       109315891, 123782263, 72515638, 27273290, 129364219, 107297290,
       80958204, 73447981, 78868627, 38608704, 59725416, 12298651,
       80032267, 107097025, 51660557, 42553307, 77262571, 32495072,
       38967366, 24678442, 25419673, 110255463, 25062413, 4425482,
       82245023, 131707821, 88135331, 34904153, 63958907, 9272465,
       12056021, 91096787, 101683877, 17478429, 117678127, 20072305,
       123934102, 5186383, 113073097, 10770746, 120550755, 93861517,
       123894027, 111314930, 72558093, 91737600, 52518866, 112456367,
       94661535, 70407122, 36994985, 70033481, 108934961, 31608507,
       114016076, 28883828, 120130096, 91197504, 79161774, 110764964,
       127475283, 56294034, 77805347, 36938170, 60473556, 66123086,
       88616634, 86059980, 133715463, 93982678, 123069766, 131863600,
       106478290, 47965060, 11055915, 43530143, 82246356, 15481980,
       65289435, 78795832, 84576944, 44999241, 113424392, 25552216,
       32619689, 2175538, 98178821, 36378099, 15721498, 94668208,
       29589712, 49937073, 106647121, 22881676, 44632246, 57194352,
       109510002, 8347330, 13503312, 105108387, 19643903, 114799458,
       93639768, 29363290, 6071213, 109672030, 77022995, 85121743,
       122140281, 125697548, 71698837, 80821954, 91347127, 9931695,
       3583183, 16702553, 85228245, 25302809, 81381364, 111412274,
       77303096, 16065254, 52507238, 12285197, 49679341, 111916704,
       131602717, 15575449, 4884456, 81269394, 2904003, 26117555,
       128987434, 130284063, 24826513, 96383539 >>,
    <<
       18034063, 76397250, 113740630, 107678193, 102512094, 8470054,
       34234785, 15826780, 66496171, 102134650, 60329669, 63383683,
       87455328, 50951092, 105860656, 28179657, 12597620, 65479012,
       3804733, 119898983, 112174493, 52319252, 58085012, 81528947,
       102311500, 102966154, 282669, 93393106, 59778857, 35746282,
       96843463, 107619313, 30703945, 79343270, 126872085, 13720696,
       120987545, 42604684, 4105718, 2996023, 3415285, 87180606,
       72667152, 1235465, 126050466, 118277206, 51164366, 92138303,
       29071478, 130062434, 56655527, 97422287, 3897788, 70817221,
       29754951, 102502212, 58772277, 126052863, 66546792, 74203556,
       31284065, 46399124, 30986382, 90845073, 29364293, 102132676,
       61686932, 127808087, 38893829, 124353614, 2884299, 55858725,
       112417812, 122979655, 74686034, 123774053, 86207290, 13421809,
       24951916, 84470316, 133216921, 97125183, 115420069, 39780845,
       16225575, 99743456, 44653591, 120202094, 96835997, 130627706,
       95454543, 67216197, 125686927, 129816765, 56654242, 68144655,
       111405504, 122162970, 89966890, 25481199, 40717432, 38139224,
       78863733, 130654435, 118444326, 67023240, 113574694, 126287269,
       67818046, 52795029, 79054544, 114526370, 4633978, 64454973,
       32580007, 99821838, 107025786, 54262629, 55608283, 89220365,
       23220660, 49274526, 73658522, 118478286, 94360533, 104131166,
       90527955, 99081602, 50291788, 11605483, 58916432, 89088064,
       68239848, 14486288, 104480799, 21971213, 69919170, 112736387,
       52781805, 49730710, 65725551, 98350162, 3969484, 62991083,
       5836765, 41410118, 94406345, 113857109, 131961221, 82518497,
       79615772, 77601456, 52828055, 86859830, 22863882, 22628343,
       67409318, 30459014, 131812095, 1651090, 103417865, 26778633,
       72426227, 123491910, 115466139, 73596743, 31162152, 54285013,
       68957265, 46147529, 127838008, 113744288, 77550306, 47415655,
       61623617, 122105251, 36142079, 88478314, 73550819, 81731190,
       128461972, 97898435, 766266, 51497950, 105180424, 115017764,
       110123754, 128130457, 118941009, 125957861, 99388685, 68786576,
       108600919, 17347564, 69615820, 104340483, 75344177, 27579764,
       57188922, 127469162, 7532741, 64572392, 116770786, 48954043,
       76504015, 74410468, 26821992, 126300695, 67742434, 55485614,
       65085546, 109166191, 47887538, 55623117, 46449792, 212701,
       72273400, 72492277, 83683337, 105554778, 82201978, 44444516,
       61491422, 80511200, 3754738, 107987488, 30817065, 85278064,
       23784892, 73921254, 78445010, 24264416, 115562653, 12294532,
       107164660, 73957878, 106984623, 114256063, 109580368, 124949997,
       34264986, 4356590, 112977078, 126643855, 90343768, 9456105,
       11171496, 116511469, 2240178, 60800468, 1954206, 101219666,
       101413140, 37741579, 33495272, 36056483 >>,
    <<
       128316747, 115844572, 127215251, 113958270, 7590196, 12292302,
       11391326, 48460313, 112138761, 22694018, 98780219, 108577047,
       89889692, 114599711, 41357375, 33766938, 81328449, 28483526,
       81443550, 4796195, 78007882, 91435315, 21257788, 134179985,
       57803500, 85694172, 52818946, 107866686, 97041038, 115460008,
       133522421, 68325876, 127425703, 49937087, 73038206, 125589096,
       59707318, 67386331, 36002662, 120958063, 4821681, 116908066,
       3683586, 48857189, 62396997, 125070327, 42743665, 121836157,
       51004739, 56856101, 119693954, 118657137, 70565342, 22077262,
       75230427, 23815115, 31691947, 30950967, 3202177, 23718954,
       43639945, 23298688, 18347213, 68473414, 68481085, 48276962,
       134041039, 68952666, 90527132, 75147206, 24406620, 133570485,
       119933141, 59812467, 106939306, 55656198, 98569726, 70513392,
       121680939, 121933863, 102392756, 48889548, 105998133, 79656283,
       47484484, 48571567, 131664446, 115288574, 129104158, 59830097,
       21633837, 128168953, 101200713, 53668769, 95985928, 99131901,
       61928958, 87900663, 71183139, 33541247, 65768555, 37460468,
       124128859, 66849210, 67221749, 69174770, 111605327, 106866335,
       47502902, 88809937, 118494244, 61027295, 120755768, 121222318,
       61876005, 47080197, 76196084, 97426662, 123524660, 74837503,
       97143161, 61277253, 65311494, 88434088, 29770969, 126244727,
       43576099, 109344989, 93894915, 112075346, 22289495, 117668168,
       121861710, 82724570, 35988807, 103748163, 122323062, 64393122,
       41548859, 40707799, 128494913, 107274710, 94785338, 111544037,
       67679130, 75455690, 69490927, 68096262, 87431360, 82652379,
       78912603, 54582394, 41855036, 98103747, 27892923, 65619913,
       68704935, 49203983, 125380075, 91836040, 83653223, 118389370,
       10116710, 105264259, 110112223, 45829840, 97435264, 1130357,
       121823206, 109395432, 25689639, 133824281, 99963045, 14248141,
       7886485, 77096670, 87632087, 6564606, 36654825, 79416672,
       30415955, 91600601, 117506435, 122922093, 14262778, 101249798,
       70110330, 18320705, 114614290, 35680602, 32860791, 110695737,
       28250004, 126645292, 118189683, 8104713, 56763045, 120523207,
       96228889, 101926160, 4277931, 7623085, 48634721, 48347706,
       23069476, 33487550, 90297049, 3146424, 11127076, 15464979,
       128119165, 9055212, 3401710, 5486092, 97901565, 123296436,
       2838016, 50076269, 34318138, 17151298, 109166577, 125623135,
       21088059, 98621446, 24661005, 70208140, 92810945, 259879,
       51749776, 79115746, 5792970, 106590071, 132875758, 33262777,
       20323262, 130300886, 4867942, 563192, 46197876, 125958507,
       82576045, 84256020, 99651243, 100351696, 15182025, 38389845,
       45260066, 65600394, 4135363, 41390816, 60217221, 74021523,
       102806744, 81222653, 99313960, 6143475 >>,
    <<
       31939071, 79542916, 73045210, 17505051, 49654541, 122936031,
       81056775, 63626388, 83982757, 77960647, 8795134, 81282193,
       1767377, 121979540, 112403197, 62979298, 34809906, 73925063,
       31451369, 25735457, 133633187, 96253980, 63117699, 72608285,
       112267955, 73770246, 63935045, 53302500, 85774273, 115564431,
       20215394, 31128044, 85209555, 20350410, 116507068, 124263533,
       70220193, 52336420, 99489140, 2032960, 90115322, 104318673,
       8594154, 21394297, 101767940, 128513081, 79336043, 5743046,
       40435460, 104700094, 4162326, 110537762, 116169099, 36162506,
       63451308, 79825928, 96478913, 123501330, 117952257, 52023943,
       95848836, 105778179, 123627770, 57302230, 53011090, 97727413,
       107496155, 77431504, 59676027, 129398472, 125572324, 18005188,
       117959486, 49059218, 13080096, 4816622, 18249431, 66422127,
       29123494, 34625653, 129584550, 90199847, 58540654, 104551930,
       84107309, 114786434, 40403052, 56525596, 68081000, 111867405,
       51790092, 77044027, 47098408, 71686102, 78527317, 54703906,
       78416948, 31190384, 121359907, 45199834, 91534092, 122907306,
       124680968, 3846729, 114944138, 37538779, 133008378, 81311680,
       90096809, 93357208, 21890860, 93766634, 115512814, 43807362,
       129470842, 72714593, 121426239, 76766581, 76384316, 13968818,
       95806898, 87981222, 28336715, 84956587, 111616526, 132616783,
       76978209, 35847529, 38246343, 16701361, 8517534, 64693135,
       114614220, 85732706, 132849514, 64895444, 11880697, 46181662,
       107454085, 8940513, 55091253, 120406208, 20235386, 2701179,
       39445415, 57329996, 103185500, 55726838, 117140807, 15960800,
       5931089, 81200173, 82481159, 102224856, 6031777, 50708097,
       96427448, 78701933, 44419913, 73934028, 118233108, 123732952,
       131618703, 37456610, 67836374, 31668881, 134017602, 4833561,
       41563211, 970761, 10330833, 14511527, 80498801, 71884085,
       4211451, 127358597, 26492546, 130382947, 54752261, 39139553,
       81935510, 35349353, 20964673, 92574406, 5695639, 131518109,
       116471330, 45609039, 42121619, 48344767, 128669090, 18565807,
       120347619, 115656404, 50706013, 50566692, 61795134, 116754863,
       69803014, 51833939, 86421280, 116344293, 79946821, 91398358,
       75062749, 13767091, 83231920, 130578191, 126248047, 108919301,
       68051987, 36413354, 57873550, 85133017, 96678539, 96049076,
       31894912, 125686299, 40411194, 58712975, 131237734, 34659429,
       69944521, 40667050, 73609091, 45487470, 1537797, 105816782,
       55728588, 132534091, 77841613, 42261994, 2691453, 50535197,
       82651000, 79081507, 84849835, 17886984, 8063869, 85031339,
       84200298, 44620796, 62579073, 47367564, 91171605, 123123102,
       47322081, 81720331, 94885256, 37436600, 99057285, 65699963,
       2977280, 79104836, 8130480, 128156594 >>
  >>

\* random.Random(seed): the generator's state after seeding (an int seed is
\* used by its absolute value); pos is the number of words put out so far
RngSeed(seed) == [seed |-> Abs(seed), pos |-> 0]

\* the next word of the generator in state x, without its 5 low bits
Word(x) == Words[x.seed + 1][x.pos + 1]

\* one advance of the generator: one word put out
RngNext(x) == [x EXCEPT !.pos = @ + 1]

\* rng.random(): (a * 2**26 + b) / 2**53 with a = word >> 5, b = word >> 6
\* of two successive words, and the generator afterwards
Random(x) ==
    [a |-> Word(x), b |-> Word(RngNext(x)) \div 2, rng |-> RngNext(RngNext(x))]

\* rng.random() < delta for the draw x1 and delta a numerator over Scale:
\* floor(Scale * (a * 2**26 + b) / 2**53) < delta
Below(x1, delta) ==
    (x1.a * Scale + ((x1.b * Scale) \div Pow2(26))) \div Pow2(27) < delta

\* rng._randbelow(n): k = n.bit_length(); r = getrandbits(k) until r < n.
\* getrandbits(k) is the top k bits of one word.
RECURSIVE RandBelow(_, _)
RandBelow(n, x) ==
    Only({ IF r < n THEN [val |-> r, rng |-> RngNext(x)] ELSE RandBelow(n, RngNext(x))
           : r \in {Word(x) \div Pow2(27 - BitLength(n))} })

\* x[i], x[j] = x[j], x[i]
Swap(pool, i, j) ==
    [k \in 1..Len(pool) |-> IF k = i THEN pool[j] ELSE IF k = j THEN pool[i] ELSE pool[k]]

\* rng.shuffle(pool): for i in reversed(range(1, len)): j = randbelow(i + 1); swap
\* (i counts positions from 1)
RECURSIVE ShuffleFrom(_, _, _)
ShuffleFrom(pool, i, x) ==
    IF i < 2 THEN [pool |-> pool, rng |-> x]
    ELSE Only({ Only({ ShuffleFrom(p, i - 1, j.rng) : p \in {Swap(pool, i, j.val + 1)} })
                : j \in {RandBelow(i, x)} })

Shuffle(pool, x) == ShuffleFrom(pool, Len(pool), x)

(* -------------------------- pairing generator ------------------------- *)

\* a grouping that slides by one position instead of two
PairUpOverlapping(pool) ==
    [k \in 1..(Len(pool) \div 2) |-> <<pool[k], pool[k + 1]>>]

\* the list comprehension of _make_random_pairs: consecutive pairs of pool
PairUp(pool) ==
    [k \in 1..(Len(pool) \div 2) |-> <<pool[2 * k - 1], pool[2 * k]>>]

\* _make_random_pairs(agents, rng): the pairs and the generator afterwards
MakeRandomPairs(agents, x) ==
    Only({ [pairs |-> PairUp(sh.pool), rng |-> sh.rng] : sh \in {Shuffle(agents, x)} })

\* a decision that reuses when the draw is not below delta
ReuseOrFreshInverted(s, x1) ==
    IF ~Below(x1, s.delta)
    THEN [pairs |-> s.last_pairs, rng |-> x1.rng, calls |-> <<"random">>]
    ELSE Only({ [pairs |-> m.pairs, rng |-> m.rng, calls |-> <<"random", "shuffle">>]
                : m \in {MakeRandomPairs(s.agents, x1.rng)} })

\* the reuse-or-reshuffle decision once rng.random() made the draw x1
ReuseOrFresh(s, x1) ==
    IF Below(x1, s.delta)
    THEN [pairs |-> s.last_pairs, rng |-> x1.rng, calls |-> <<"random">>]
    ELSE Only({ [pairs |-> m.pairs, rng |-> m.rng, calls |-> <<"random", "shuffle">>]
                : m \in {MakeRandomPairs(s.agents, x1.rng)} })

\* step(), lines 305-308: reuse the last pairing or make a new one.
\* calls lists the calls made on self.rng, in order.
StepPairing(s) ==
    IF s.last_pairs # <<>>
    THEN ReuseOrFresh(s, Random(s.rng))
    ELSE Only({ [pairs |-> m.pairs, rng |-> m.rng, calls |-> <<"shuffle">>]
                : m \in {MakeRandomPairs(s.agents, s.rng)} })

(* ------------------------------- engine ------------------------------- *)

\* lines 270-272 of _play_pair_with_override, d1 and d2 being the two moves
\* with the agent objects after they were chosen
PayAndObserve(a1, a2, pay, ag, d1, d2) ==
    LET m1 == d1.act
        m2 == d2.act
        p1 == Payoff(pay, m1, m2)
        p2 == Payoff(pay, m2, m1)
    IN [m1 |-> m1, m2 |-> m2, p1 |-> p1, p2 |-> p2,
        agent |-> [ag EXCEPT ![a1] = Observe(d1.self, a2, m1, m2, p1),
                             ![a2] = Observe(d2.self, a1, m2, m1, p2)]]

\* an override lookup that is honoured for the first agent of a pair only
PlayPairOverrideFirstOnly(a1, a2, pay, ov, ag, us) ==
    Only({ PayAndObserve(a1, a2, pay, ag, d1, d2)
           : d1 \in {IF a1 \in DOMAIN ov THEN Ret(ov[a1], ag[a1])
                     ELSE Decide(ag[a1], a2, us[a1])},
             d2 \in {Decide(ag[a2], a1, us[a2])} })

\* an override lookup that falls back to Cooperate, not to decide, under a
\* non-empty overrides dict
PlayPairOverrideOrDefault(a1, a2, pay, ov, ag, us) ==
    Only({ PayAndObserve(a1, a2, pay, ag, d1, d2)
           : d1 \in {IF DOMAIN ov # {} THEN Ret(DictGet(ov, a1, C), ag[a1])
                     ELSE Decide(ag[a1], a2, us[a1])},
             d2 \in {IF DOMAIN ov # {} THEN Ret(DictGet(ov, a2, C), ag[a2])
                     ELSE Decide(ag[a2], a1, us[a2])} })

\* _play_pair_with_override(a1, a2, pay, overrides), on the agent objects ag;
\* us[n] is the random.random() value agent n's decide would get
PlayPairWithOverride(a1, a2, pay, ov, ag, us) ==
    Only({ PayAndObserve(a1, a2, pay, ag, d1, d2)
           : d1 \in {IF a1 \in DOMAIN ov THEN Ret(ov[a1], ag[a1])
                     ELSE Decide(ag[a1], a2, us[a1])},
             d2 \in {IF a2 \in DOMAIN ov THEN Ret(ov[a2], ag[a2])
                     ELSE Decide(ag[a2], a1, us[a2])} })

\* a tally that is set to one instead of incremented
CountActionOverwrite(ac, name, k) ==
    DictSet(ac, name, [[C |-> 0, D |-> 0] EXCEPT ![k] = 1])

\* self.action_counts[name][k] += 1 on the defaultdict
CountAction(ac, name, k) ==
    DictSet(ac, name, [DictGet(ac, name, [C |-> 0, D |-> 0]) EXCEPT ![k] = @ + 1])

\* the body of the for loop of step(), lines 316-336, for the pair (a, b)
\* whose play returned r
Accumulate(acc, a, b, r) ==
    LET k1 == IF r.m1 = C THEN C ELSE D
        k2 == IF r.m2 = C THEN C ELSE D
    IN [agent |-> r.agent,
        coop_count |-> acc.coop_count + (IF r.m1 = C THEN 1 ELSE 0)
                                      + (IF r.m2 = C THEN 1 ELSE 0),
        interactions |-> acc.interactions + 2,
        round_sum |-> acc.round_sum + (r.p1 + r.p2),
        per_agent_cumsum |-> [[acc.per_agent_cumsum EXCEPT ![a] = @ + r.p1]
                                 EXCEPT ![b] = @ + r.p2],
        action_counts |-> CountAction(CountAction(acc.action_counts, a, k1), b, k2),
        results |-> Append(acc.results, <<a, r.m1, b, r.m2, r.p1, r.p2>>)]

\* the for loop of step(), lines 315-336, from pair i on
RECURSIVE PlayPairs(_, _, _, _, _, _)
PlayPairs(pairs, i, acc, pay, ov, us) ==
    IF i > Len(pairs) THEN acc
    ELSE Only({ PlayPairs(pairs, i + 1, nacc, pay, ov, us)
                : nacc \in { Only({ Accumulate(acc, pairs[i][1], pairs[i][2], r)
                                    : r \in {PlayPairWithOverride(pairs[i][1], pairs[i][2],
                                                pay, ov, acc.agent, us)} }) } })

\* step() after its loop, lines 338-356: the Simulator, the agents, the
\* returned dict and the calls made on self.rng
StepResult(s, pr, acc) ==
    LET round == s.round + 1
        rate == IF acc.interactions # 0 THEN Div(acc.coop_count, acc.interactions)
                ELSE Div(0, 1)
        avg == Div(acc.round_sum, Len(s.agents))
    IN [sim |-> [s EXCEPT
                   !.round = round,
                   !.rng = pr.rng,
                   !.coop_rates = Append(@, rate),
                   !.per_round_avg_all = Append(@, avg),
                   !.per_agent_cumsum = acc.per_agent_cumsum,
                   !.per_agent_cumavg =
                       [n \in DOMAIN @ |->
                           Append(@[n], Div(acc.per_agent_cumsum[n], round))],
                   !.action_counts = acc.action_counts,
                   !.last_pairs = pr.pairs],
        agent |-> acc.agent,
        report |-> [round |-> round, pairs |-> acc.results, coop_rate |-> rate,
                    round_avg_payoff |-> avg],
        calls |-> pr.calls]

\* the tallies the loop of step() starts from, lines 310-313
StartOfRound(s, ag) ==
    [agent |-> ag, coop_count |-> 0, interactions |-> 0, round_sum |-> 0,
     per_agent_cumsum |-> s.per_agent_cumsum,
     action_counts |-> s.action_counts, results |-> <<>>]

\* Simulator.step(overrides)
StepOp(s, ag, ov, us) ==
    Only({ Only({ StepResult(s, pr, acc)
                  : acc \in {PlayPairs(pr.pairs, 1, StartOfRound(s, ag), s.pay, ov, us)} })
           : pr \in {StepPairing(s)} })

\* a preview built on the unused Simulator._make_pairs (lines 366-395), which
\* shuffles with self.rng and does not put its state back
PreviewPairsViaMakePairs(s) ==
    Only({ [pairs |-> m.pairs, sim |-> [s EXCEPT !.rng = m.rng]]
           : m \in {MakeRandomPairs(s.agents, s.rng)} })

\* a preview that does not put the generator's state back
PreviewPairsNoRestore(s) ==
    Only({ [pairs |-> pr.pairs, sim |-> [s EXCEPT !.rng = pr.rng]]
           : pr \in {IF s.last_pairs # <<>>
                     THEN ReuseOrFresh(s, Random(s.rng))
                     ELSE MakeRandomPairs(s.agents, s.rng)} })

\* Simulator.preview_pairs(): the returned list and the Simulator afterwards
\* (state is what getstate() saved; setstate(state) ends the call)
PreviewPairsOp(s) ==
    Only({ Only({ [pairs |-> pr.pairs, sim |-> [s EXCEPT !.rng = state]]
                  : pr \in {IF s.last_pairs # <<>>
                            THEN ReuseOrFresh(s, Random(s.rng))
                            ELSE MakeRandomPairs(s.agents, s.rng)} })
           : state \in {s.rng} })

\* a reset that leaves the agents' histories in place
ResetKeepsMemory(s, ag) ==
    [sim |-> [s EXCEPT
                !.round = 0,
                !.last_pairs = <<>>,
                !.action_counts = EmptyDict,
                !.coop_rates = <<>>,
                !.per_round_avg_all = <<>>,
                !.per_agent_cumsum = [n \in DOMAIN ag |-> 0],
                !.per_agent_cumavg = [n \in DOMAIN ag |-> <<>>]],
     agent |-> [n \in DOMAIN ag |-> [ag[n] EXCEPT !.score = 0]]]

\* Simulator.reset(): the Simulator and the agents afterwards
ResetOp(s, ag) ==
    [sim |-> [s EXCEPT
                !.round = 0,
                !.last_pairs = <<>>,
                !.action_counts = EmptyDict,
                !.coop_rates = <<>>,
                !.per_round_avg_all = <<>>,
                !.per_agent_cumsum = [n \in DOMAIN ag |-> 0],
                !.per_agent_cumavg = [n \in DOMAIN ag |-> <<>>]],
     agent |-> [n \in DOMAIN ag |-> [ag[n] EXCEPT !.score = 0, !.memory = EmptyDict]]]

\* list.sort(key=score, reverse=True): stable, descending; e goes behind
\* every entry whose score is not smaller
RECURSIVE InsertDesc(_, _)
InsertDesc(sorted, e) ==
    IF sorted = <<>> THEN <<e>>
    ELSE IF Head(sorted)[2] >= e[2]
    THEN Only({ <<Head(sorted)>> \o rest : rest \in {InsertDesc(Tail(sorted), e)} })
    ELSE <<e>> \o sorted

RECURSIVE SortDesc(_, _)
SortDesc(out, i) ==
    IF i = 0 THEN <<>>
    ELSE Only({ InsertDesc(before, out[i]) : before \in {SortDesc(out, i - 1)} })

\* a summary that leaves the list in roster order
SummaryRosterOrder(s, ag) ==
    [i \in 1..Len(s.agents) |->
        <<s.agents[i], ag[s.agents[i]].score,
          Div(ag[s.agents[i]].score, Max(1, s.round))>>]

\* Simulator.summary()
Summary(s, ag) ==
    Only({ SortDesc(out, Len(out))
           : out \in {[i \in 1..Len(s.agents) |->
                         <<s.agents[i], ag[s.agents[i]].score,
                           Div(ag[s.agents[i]].score, Max(1, s.round))>>]} })

\* what a call that raised AssertionError leaves: no object
AssertionError == [raised |-> "AssertionError"]

\* a constructor without the assert on the roster size
SimulatorUnchecked(agents, pay, seed, delta) ==
    [agents |-> agents,
     pay |-> pay,
     delta |-> Clip(delta),
     rng |-> RngSeed(seed),
     round |-> 0,
     last_pairs |-> <<>>,
     coop_rates |-> <<>>,
     per_agent_cumsum |-> [i \in {agents[k] : k \in 1..Len(agents)} |-> 0],
     per_agent_cumavg |-> [i \in {agents[k] : k \in 1..Len(agents)} |-> <<>>],
     per_round_avg_all |-> <<>>,
     action_counts |-> EmptyDict]

\* Simulator.__init__(agents, pay, seed, delta)
Simulator(agents, pay, seed, delta) ==
    IF Len(agents) % 2 # 0 THEN AssertionError ELSE
    [agents |-> agents,
     pay |-> pay,
     delta |-> Clip(delta),
     rng |-> RngSeed(seed),
     round |-> 0,
     last_pairs |-> <<>>,
     coop_rates |-> <<>>,
     per_agent_cumsum |-> [i \in {agents[k] : k \in 1..Len(agents)} |-> 0],
     per_agent_cumavg |-> [i \in {agents[k] : k \in 1..Len(agents)} |-> <<>>],
     per_round_avg_all |-> <<>>,
     action_counts |-> EmptyDict]

\* s is a Simulator object: the constructor returned it
Constructed(s) == "raised" \notin DOMAIN s

(* ------------------------- rosters and inputs ------------------------- *)

Half == Scale \div 2

\* the rosters a run is constructed with, each with its payoff matrix
Rosters ==
    { [objs |-> <<AlwaysCooperate("AC"), AlwaysDefect("AD")>>, pay |-> AppPayoffs],
      [objs |-> <<Alternator("ALT", TRUE), TitForTat("TFT"),
                  GrimTrigger("GRIM"), UserAgent("USER")>>,
       pay |-> DefaultPayoffs],
      [objs |-> <<RandomCooperator("R50", Half), UserAgent("USER")>>,
       pay |-> DefaultPayoffs] }

\* rosters of the other stochastic strategies
StochasticRosters ==
    { [objs |-> <<GenerousTitForTat("gTFT", Half), Joss("Joss", Half)>>,
       pay |-> DefaultPayoffs],
      [objs |-> <<StochasticWSLS("sWSLS", Half),
                  MemoryOne("M1", Scale, Half, Scale + 1, 0 - 1)>>,
       pay |-> AppPayoffs] }

\* one deterministic strategy and the user, for runs of many rounds
DuelRosters ==
    { [objs |-> <<x, UserAgent("USER")>>, pay |-> DefaultPayoffs]
      : x \in { AlwaysCooperate("AC"), AlwaysDefect("AD"), TitForTat("TFT"),
                WinStayLoseShift("WSLS"), GrimTrigger("GRIM"), TitForTwoTats("TF2T"),
                SuspiciousTitForTat("sTFT"), SoftGrudger("SG0", 0),
                SoftGrudger("SG2", 2), SoftGrudger("SG3", 3),
                Alternator("ALT", TRUE), Alternator("ALT", FALSE), Prober("PROB"),
                ContriteTitForTat("CTFT"), Gradual("Gradual"), Tester("Tester"),
                Majority("Majority") } }

\* four strategies that keep per-opponent state of their own, with a
\* defector or the user to set it off
QuadRosters ==
    { [objs |-> <<SoftGrudger("SG2", 2), Gradual("Gradual"),
                  AlwaysDefect("AD"), UserAgent("USER")>>,
       pay |-> DefaultPayoffs],
      [objs |-> <<Alternator("ALT", TRUE), Prober("PROB"),
                  Tester("Tester"), ContriteTitForTat("CTFT")>>,
       pay |-> AppPayoffs] }

\* a coin-flipping strategy and the user
CoinRosters ==
    { [objs |-> <<Joss("Joss", Half), UserAgent("USER")>>, pay |-> DefaultPayoffs] }

\* rosters of odd size
OddRosters ==
    { [objs |-> <<AlwaysCooperate("AC")>>, pay |-> DefaultPayoffs],
      [objs |-> <<AlwaysCooperate("AC"), AlwaysDefect("AD"), TitForTat("TFT")>>,
       pay |-> AppPayoffs] }

\* the roster as the list of its agents' names, and the objects by name
NamesOf(objs) == [i \in 1..Len(objs) |-> objs[i].name]
NameSet(agents) == {agents[i] : i \in 1..Len(agents)}
ObjectsOf(objs) ==
    [n \in NameSet(NamesOf(objs)) |-> objs[CHOOSE i \in 1..Len(objs) : objs[i].name = n]]

\* a name that no roster agent has
Ghost == "GHOST"

\* the overrides arguments step() is called with (None and {} are the empty dict)
OverrideChoices(agents) ==
    LET first == agents[1]
        last == agents[Len(agents)]
    IN {EmptyDict, first :> D, Ghost :> D, (last :> D) @@ (Ghost :> C)}

\* the overrides argument the step handler of app.py passes:
\* {"USER": Action(choice)} for the choice made on the page
HandlerOverrides == {"USER" :> a : a \in Action}

\* the overrides arguments step() is called with in the runs of few agents:
\* the handler's, none, and a forced Defect of a TitForTat or
\* ContriteTitForTat
DuelOverrides(ag) ==
    HandlerOverrides \cup {EmptyDict}
    \cup {n :> D : n \in {m \in DOMAIN ag :
                             ag[m].kind \in {"TitForTat", "ContriteTitForTat"}}}

\* the values the module-level random.random() hands to the stochastic
\* agents in one round
GlobalDraws(ag) ==
    [{n \in DOMAIN ag : ag[n].kind \in StochasticKinds} -> 0..(Scale - 1)]

\* one value per agent; only a stochastic agent's value is ever read
DrawChoices(ag) ==
    { [n \in DOMAIN ag |-> IF n \in DOMAIN g THEN g[n] ELSE 0] : g \in GlobalDraws(ag) }

(* ---------------------------- specification --------------------------- *)

\* the objects after Simulator(agents, pay, seed, delta) on a roster
ConstructWith(rosters, seeds, deltas) ==
    \E r \in rosters, seed \in seeds, delta \in deltas :
        /\ sim = Simulator(NamesOf(r.objs), r.pay, seed, delta)
        /\ agent = ObjectsOf(r.objs)
        /\ sim2 = Simulator(NamesOf(r.objs), r.pay, seed, delta)
        /\ agent2 = ObjectsOf(r.objs)
        /\ report = None
        /\ report2 = None
        /\ preview = <<>>
        /\ previews = 0
        /\ shown = <<>>
        /\ overrides = EmptyDict
        /\ drawn = <<>>
        /\ last_op = "init"
        /\ steps = 0
        /\ resets = 0

Construct(rosters) == ConstructWith(rosters, 0..MaxSeed, (0 - 1)..(Scale + 1))

Init == Construct(Rosters)

\* sim.step(overrides)
Step ==
    /\ Constructed(sim)
    /\ steps < MaxSteps
    /\ \E ov \in OverrideChoices(sim.agents), us \in DrawChoices(agent) :
          \E r \in {StepOp(sim, agent, ov, us)} :
             /\ sim' = r.sim
             /\ agent' = r.agent
             /\ report' = r.report
             /\ drawn' = r.calls
             /\ overrides' = ov
    /\ steps' = steps + 1
    /\ last_op' = "step"
    /\ shown' = preview
    /\ preview' = <<>>
    /\ previews' = 0
    /\ UNCHANGED <<resets, sim2, agent2, report2>>

\* sim.preview_pairs()
PreviewPairs ==
    /\ Constructed(sim)
    /\ previews < MaxPreviews
    /\ previews' = previews + 1
    /\ \E r \in {PreviewPairsOp(sim)} :
          /\ sim' = r.sim
          /\ preview' = <<r.pairs>>
    /\ last_op' = "preview"
    /\ UNCHANGED <<agent, report, shown, overrides, drawn, steps, resets,
                   sim2, agent2, report2>>

\* sim.reset()
Reset ==
    /\ Constructed(sim)
    /\ resets < MaxResets
    /\ resets' = resets + 1
    /\ \E r \in {ResetOp(sim, agent)} :
          /\ sim' = r.sim
          /\ agent' = r.agent
    /\ last_op' = "reset"
    /\ preview' = <<>>
    /\ previews' = 0
    /\ UNCHANGED <<report, shown, overrides, drawn, steps, sim2, agent2, report2>>

Next == Step \/ PreviewPairs \/ Reset

Spec == Init /\ [][Next]_vars

\* both Simulators are stepped with the same overrides; each stochastic
\* decide of either takes its own value from the module-level random
TwinStep ==
    /\ Constructed(sim)
    /\ steps < MaxSteps
    /\ \E ov \in OverrideChoices(sim.agents),
          us \in DrawChoices(agent), us2 \in DrawChoices(agent2) :
          \E r \in {StepOp(sim, agent, ov, us)}, r2 \in {StepOp(sim2, agent2, ov, us2)} :
             /\ sim' = r.sim
             /\ agent' = r.agent
             /\ report' = r.report
             /\ drawn' = r.calls
             /\ overrides' = ov
             /\ sim2' = r2.sim
             /\ agent2' = r2.agent
             /\ report2' = r2.report
    /\ steps' = steps + 1
    /\ last_op' = "step"
    /\ UNCHANGED <<preview, previews, shown, resets>>

InitTwin == Construct(Rosters \cup StochasticRosters)

SpecTwin == InitTwin /\ [][TwinStep]_vars

\* construction attempted on rosters of either parity, then the same calls
InitBuild == Construct(Rosters \cup OddRosters)

SpecBuild == InitBuild /\ [][Next]_vars

\* sim.step(overrides) in a run of one strategy against the user
DuelStep ==
    /\ Constructed(sim)
    /\ steps < MaxDuelSteps
    /\ \E ov \in DuelOverrides(agent), us \in DrawChoices(agent) :
          \E r \in {StepOp(sim, agent, ov, us)} :
             /\ sim' = r.sim
             /\ agent' = r.agent
             /\ report' = r.report
             /\ drawn' = r.calls
             /\ overrides' = ov
    /\ steps' = steps + 1
    /\ last_op' = "step"
    /\ UNCHANGED <<preview, previews, shown, resets, sim2, agent2, report2>>

InitDuel == ConstructWith(DuelRosters, 0..MaxSeed, {Half})

SpecDuel == InitDuel /\ [][DuelStep]_vars

\* sim.step(overrides) in a run of four strategies
QuadStep ==
    /\ Constructed(sim)
    /\ steps < MaxQuadSteps
    /\ \E ov \in DuelOverrides(agent), us \in DrawChoices(agent) :
          \E r \in {StepOp(sim, agent, ov, us)} :
             /\ sim' = r.sim
             /\ agent' = r.agent
             /\ report' = r.report
             /\ drawn' = r.calls
             /\ overrides' = ov
    /\ steps' = steps + 1
    /\ last_op' = "step"
    /\ UNCHANGED <<preview, previews, shown, resets, sim2, agent2, report2>>

InitQuad == Construct(QuadRosters)

\* sim.step(overrides) in a run of a coin-flipping strategy against the
\* user; the strategy's draw from the module-level random is any value
CoinStep ==
    /\ Constructed(sim)
    /\ steps < MaxCoinSteps
    /\ \E ov \in DuelOverrides(agent), us \in DrawChoices(agent) :
          \E r \in {StepOp(sim, agent, ov, us)} :
             /\ sim' = r.sim
             /\ agent' = r.agent
             /\ report' = r.report
             /\ drawn' = r.calls
             /\ overrides' = ov
    /\ steps' = steps + 1
    /\ last_op' = "step"
    /\ UNCHANGED <<preview, previews, shown, resets, sim2, agent2, report2>>

InitCoin == ConstructWith(CoinRosters, 0..MaxSeed, {Half})

SpecCoin == InitCoin /\ [][CoinStep]_vars

SpecQuad == InitQuad /\ [][QuadStep]_vars

(* ------------------------ properties: helpers ------------------------- *)

\* the two names of each pair tuple of a round report, in order
ReportedPairs(rep) == [i \in 1..Len(rep.pairs) |-> <<rep.pairs[i][1], rep.pairs[i][3]>>]

\* the fields of an agent object other than its score and its histories
Private(a) == [f \in (DOMAIN a) \ {"score", "memory"} |-> a[f]]

\* ov without the entries whose name no roster agent has
KnownOnly(ov, ag) == [n \in (DOMAIN ov) \cap (DOMAIN ag) |-> ov[n]]

\* how often name n occurs in the pairs of a pairing
Occurrences(pairs, n) ==
    Cardinality({<<i, j>> \in (1..Len(pairs)) \X {1, 2} : pairs[i][j] = n})

(* ------------------------------ C1 ------------------------------------ *)

\* C1: when preview_pairs() was called right before a step(), the pairing it
\* returned is, pair by pair and in order, the pairing that step used (the
\* pairs of its report and the last_pairs it stored), whatever the overrides.
C1_PreviewIsThePairingPlayed ==
    (last_op = "step" /\ shown # <<>>) =>
        /\ sim.last_pairs = shown[1]
        /\ ReportedPairs(report) = shown[1]

\* a previewed second round on the four-agent roster, played with overrides,
\* in which the step drew the Bernoulli value and reshuffled
C1_Witness ==
    /\ last_op = "step" /\ shown # <<>>
    /\ sim.round >= 2
    /\ drawn = <<"random", "shuffle">>
    /\ Len(sim.agents) = 4
    /\ DOMAIN overrides # {}

(* ------------------------------ C2 ------------------------------------ *)

\* C2: preview_pairs() leaves the Simulator (round, last_pairs, tallies,
\* series, random source) and every agent (score, histories, private state)
\* exactly as they were before the call.
C2_PreviewChangesNothing ==
    [][last_op' = "preview" => (sim' = sim /\ agent' = agent /\ report' = report)]_vars

\* a preview taken in mid-run, where the preview itself draws the Bernoulli
\* value and reshuffles
C2_Witness ==
    /\ last_op = "preview"
    /\ sim.round >= 1 /\ sim.last_pairs # <<>> /\ sim.delta = Half
    /\ preview[1] # sim.last_pairs

(* ------------------------------ C3 ------------------------------------ *)

\* C3: a preview_pairs() call that directly follows another preview_pairs()
\* call returns the same pairing, same pairs in the same order.
C3_ConsecutivePreviewsAgree ==
    [][(last_op = "preview" /\ last_op' = "preview") => preview' = preview]_vars

\* a second consecutive preview in mid-run
C3_Witness ==
    /\ last_op = "preview" /\ previews >= 2
    /\ sim.round >= 1 /\ sim.delta = Half /\ Len(sim.agents) = 4

(* ------------------------------ C4 ------------------------------------ *)

\* C4: two Simulators constructed alike and stepped with the same overrides
\* return the same report at every step and the same summary().
C4_SameReportsAndSummary ==
    /\ report = report2
    /\ Summary(sim, agent) = Summary(sim2, agent2)

(* ------------------------------ C5 ------------------------------------ *)

\* C5: every step() makes exactly one Bernoulli draw on the Simulator's
\* random source, before anything else, the first round after construction
\* or reset included (there the outcome is discarded and the pairing is
\* fresh).
C5_OneDrawInEveryStep ==
    last_op = "step" => (Count(drawn, "random") = 1 /\ drawn[1] = "random")

(* ------------------------------ C6 ------------------------------------ *)

\* C6: the pairing of every round has n/2 pairs for a roster of n agents,
\* every roster agent is in exactly one pair, and nobody is paired with
\* itself: for the pairing a step used and for the one a preview returned.
PerfectMatching(pairs, agents) ==
    /\ Len(pairs) * 2 = Len(agents)
    /\ \A n \in NameSet(agents) : Occurrences(pairs, n) = 1
    /\ \A i \in 1..Len(pairs) : pairs[i][1] # pairs[i][2]

C6_PairingIsPerfectMatching ==
    /\ last_op = "step" =>
          (PerfectMatching(sim.last_pairs, sim.agents)
           /\ PerfectMatching(ReportedPairs(report), sim.agents))
    /\ last_op = "preview" => PerfectMatching(preview[1], sim.agents)

\* a pairing reused in the second round on the four-agent roster
C6_Witness ==
    /\ last_op = "step" /\ Len(sim.agents) = 4 /\ sim.round >= 2
    /\ drawn = <<"random">>

(* ------------------------------ C7 ------------------------------------ *)

\* C7: in every pair tuple of every report the two payoffs are those of the
\* matrix: C/C gives (R,R), C/D gives (S,T), D/C gives (T,S), D/D gives (P,P).
MatrixPayoffs(pay, m1, m2) ==
    CASE m1 = C /\ m2 = C -> <<pay.R, pay.R>>
      [] m1 = C /\ m2 = D -> <<pay.S, pay.T>>
      [] m1 = D /\ m2 = C -> <<pay.T, pay.S>>
      [] m1 = D /\ m2 = D -> <<pay.P, pay.P>>

C7_ReportedPayoffsFollowMatrix ==
    last_op = "step" =>
        \A i \in 1..Len(report.pairs) :
            LET t == report.pairs[i]
            IN /\ t[2] \in Action /\ t[4] \in Action
               /\ <<t[5], t[6]>> = MatrixPayoffs(sim.pay, t[2], t[4])

\* a report with a defector exploiting a cooperator
C7_Witness ==
    /\ last_op = "step"
    /\ \E i \in 1..Len(report.pairs) : report.pairs[i][2] = C /\ report.pairs[i][4] = D
    /\ \E i \in 1..Len(report.pairs) : report.pairs[i][2] = D /\ report.pairs[i][4] = D

(* ------------------------------ C8 ------------------------------------ *)

\* agent a, paired with opp in the step just taken, played m and opp played
\* m_opp: m is a's override if a has one, and then a's decide was not run
\* (nothing of a but its score and history changed); else m is what a's
\* decide returns on a's state before the step, which becomes a's state.
\* Either way the move is appended to a's history for opp and counted once.
PlayedAsDecidedOrForced(a, opp, m, m_opp) ==
    /\ IF a \in DOMAIN overrides'
       THEN m = overrides'[a] /\ Private(agent'[a]) = Private(agent[a])
       ELSE \E u \in 0..(Scale - 1) :
               /\ Decide(agent[a], opp, u).act = m
               /\ Private(agent'[a]) = Private(Decide(agent[a], opp, u).self)
    /\ opp \in DOMAIN agent'[a].memory
    /\ LET h == agent'[a].memory[opp]
           before == IF opp \in DOMAIN agent[a].memory
                     THEN Len(agent[a].memory[opp].my_actions) ELSE 0
       IN /\ Len(h.my_actions) = before + 1 /\ Last(h.my_actions) = m
          /\ Len(h.opp_actions) = before + 1 /\ Last(h.opp_actions) = m_opp
    /\ sim'.action_counts[a] =
          [DictGet(sim.action_counts, a, [C |-> 0, D |-> 0]) EXCEPT ![m] = @ + 1]

\* C8: in step(overrides) an agent named in overrides plays the override and
\* its decide is not consulted, any other agent plays the result of its
\* decide(opponent); the action played is the one reported, recorded in both
\* agents' histories and counted in the action tallies.
C8_OverrideElseDecide ==
    [][last_op' = "step" =>
          \A i \in 1..Len(report'.pairs) :
              LET t == report'.pairs[i]
              IN /\ PlayedAsDecidedOrForced(t[1], t[3], t[2], t[4])
                 /\ PlayedAsDecidedOrForced(t[3], t[1], t[4], t[2])]_vars

\* a round in which the Alternator was forced to Defect where its own rule
\* says Cooperate (its phase counter did not move), the others deciding
C8_Witness ==
    /\ last_op = "step" /\ steps = 1
    /\ DOMAIN overrides = {"ALT"} /\ overrides["ALT"] = D
    /\ agent["ALT"].count = EmptyDict
    /\ sim.action_counts["ALT"] = [C |-> 0, D |-> 1]

(* ------------------------------ C9 ------------------------------------ *)

\* C9: override entries naming no roster agent change nothing: the step
\* returns the report and leaves the Simulator and the agents as the same
\* step with those entries removed does, and it raises nothing.
C9_UnknownOverrideIgnored ==
    [][last_op' = "step" =>
          \E us \in DrawChoices(agent) :
              \E r \in {StepOp(sim, agent, KnownOnly(overrides', agent), us)} :
                  sim' = r.sim /\ agent' = r.agent /\ report' = r.report]_vars

\* a second round whose overrides name GHOST beside a forced USER
C9_Witness ==
    /\ last_op = "step" /\ Ghost \in DOMAIN overrides
    /\ "USER" \in DOMAIN overrides
    /\ sim.round >= 2

(* ------------------------------ C10 ----------------------------------- *)

\* C10: after reset() the round counter is 0, last_pairs is empty, every
\* agent's score is 0 and its history map empty, the tallies and the series
\* are empty or zero, and the roster holds the same agent objects in the
\* same order (their names, classes, parameters and private dicts untouched).
C10_ResetClearsRunKeepsRoster ==
    [][last_op' = "reset" =>
          /\ sim'.round = 0
          /\ sim'.last_pairs = <<>>
          /\ sim'.action_counts = EmptyDict
          /\ sim'.coop_rates = <<>>
          /\ sim'.per_round_avg_all = <<>>
          /\ \A n \in DOMAIN agent' :
                /\ agent'[n].score = 0
                /\ agent'[n].memory = EmptyDict
                /\ sim'.per_agent_cumsum[n] = 0
                /\ sim'.per_agent_cumavg[n] = <<>>
          /\ sim'.agents = sim.agents
          /\ DOMAIN agent' = DOMAIN agent
          /\ DOMAIN sim'.per_agent_cumsum = DOMAIN agent
          /\ DOMAIN sim'.per_agent_cumavg = DOMAIN agent
          /\ \A n \in DOMAIN agent : Private(agent'[n]) = Private(agent[n])]_vars

\* a reset after two rounds were played
C10_Witness ==
    /\ last_op = "reset" /\ steps >= 2
    /\ Len(sim.agents) = 4
    /\ agent["ALT"].count # EmptyDict

(* ------------------------------ C11 ----------------------------------- *)

\* the position of name n in the roster list
RosterIndex(agents, n) == CHOOSE k \in 1..Len(agents) : agents[k] = n

\* sm lists every roster agent once as (name, score, score / max(1, round)),
\* by descending score, equal scores in roster order
RankedSummary(sm, s, ag) ==
    /\ Len(sm) = Len(s.agents)
    /\ \A n \in NameSet(s.agents) :
          Cardinality({i \in 1..Len(sm) : sm[i][1] = n}) = 1
    /\ \A i \in 1..Len(sm) :
          /\ sm[i][1] \in NameSet(s.agents)
          /\ sm[i][2] = ag[sm[i][1]].score
          /\ sm[i][3] = Div(ag[sm[i][1]].score, Max(1, s.round))
    /\ \A i, j \in 1..Len(sm) :
          i < j => \/ sm[i][2] > sm[j][2]
                   \/ /\ sm[i][2] = sm[j][2]
                      /\ RosterIndex(s.agents, sm[i][1]) < RosterIndex(s.agents, sm[j][1])

\* C11: summary() returns one entry per roster agent, (name, cumulative
\* score, score / max(1, round)), by descending score with equal scores in
\* roster order; after one unforced round of AlwaysCooperate against
\* AlwaysDefect under T=5, S=-1 it is [AD 5 (5.0), AC -1 (-1.0)].
C11_SummaryRanksByScore ==
    /\ RankedSummary(Summary(sim, agent), sim, agent)
    /\ (/\ sim.agents = <<"AC", "AD">> /\ sim.pay = AppPayoffs
        /\ sim.round = 1 /\ DOMAIN overrides \cap {"AC", "AD"} = {})
       => Summary(sim, agent) = << <<"AD", 5, <<5, 1>> >>, <<"AC", 0 - 1, <<0 - 1, 1>> >> >>

\* four agents after two rounds: two of them tie, and the ranking is not
\* the roster order
C11_Witness ==
    /\ Len(sim.agents) = 4 /\ sim.round = 2
    /\ \E i \in 1..3 : Summary(sim, agent)[i][2] = Summary(sim, agent)[i + 1][2]
    /\ \E i \in 1..3 : Summary(sim, agent)[i][2] > Summary(sim, agent)[i + 1][2]
    /\ Summary(sim, agent)[1][1] # sim.agents[1]

(* ------------------------------ C12 ----------------------------------- *)

\* what agent a has recorded of its rounds with opp (empty if none)
HistoryWith(a, opp) == DictGet(agent[a].memory, opp, DyadHistory)

\* C12: in a run without reset, at each encounter GrimTrigger plays Defect
\* if its opponent played Defect in any earlier encounter of the two,
\* however long ago, and Cooperate if the opponent never did.
C12_GrimNeverForgives ==
    "GRIM" \in DOMAIN agent =>
        LET h == HistoryWith("GRIM", "USER")
        IN \A i \in 1..Len(h.my_actions) :
              h.my_actions[i] =
                 IF \E j \in 1..(i - 1) : h.opp_actions[j] = D THEN D ELSE C

\* the user defected once in the second round and cooperated in three
\* rounds after it; GrimTrigger, cooperative until then, still defects
C12_Witness ==
    /\ "GRIM" \in DOMAIN agent
    /\ Len(HistoryWith("GRIM", "USER").my_actions) >= 5
    /\ SubSeq(HistoryWith("GRIM", "USER").opp_actions, 1, 5) = <<C, D, C, C, C>>
    /\ SubSeq(HistoryWith("GRIM", "USER").my_actions, 1, 5) = <<C, C, D, D, D>>

(* ------------------------------ C13 ----------------------------------- *)

\* oa[j] = C for every j of lo .. hi that oa has
QuietBetween(oa, lo, hi) == \A j \in lo..Min(hi, Len(oa)) : oa[j] = C

\* ma has D at the k positions after g and C at the two after those, as far
\* as ma reaches
PunishedThenRepaired(ma, g, k) ==
    \A i \in 1..Len(ma) :
        /\ (g < i /\ i <= g + k) => ma[i] = D
        /\ (g + k < i /\ i <= g + k + 2) => ma[i] = C

\* C13: after the first Defect of its opponent (encounter f) Gradual defects
\* in exactly one encounter and cooperates in the next two, the opponent
\* cooperating meanwhile; after a second Defect (encounter g, once that
\* first cycle is over) it defects in exactly two encounters and then
\* cooperates in two.
C13_GradualOneThenTwo ==
    "Gradual" \in DOMAIN agent =>
        LET h == HistoryWith("Gradual", "USER")
            oa == h.opp_actions
            ma == h.my_actions
        IN \A f \in 1..Len(oa) :
              (oa[f] = D /\ QuietBetween(oa, 1, f - 1)) =>
                 /\ QuietBetween(oa, f + 1, f + 3) => PunishedThenRepaired(ma, f, 1)
                 /\ \A g \in (f + 3)..Len(oa) :
                       (/\ oa[g] = D
                        /\ QuietBetween(oa, f + 1, g - 1)
                        /\ QuietBetween(oa, g + 1, g + 4))
                       => PunishedThenRepaired(ma, g, 2)

(* ------------------------------ C14 ----------------------------------- *)

\* the action the report rep gives for agent n
ReportedAction(rep, n) ==
    LET t == rep.pairs[CHOOSE i \in 1..Len(rep.pairs) : n \in {rep.pairs[i][1], rep.pairs[i][3]}]
    IN IF t[1] = n THEN t[2] ELSE t[4]

\* C14: in a round where TitForTat is not forced, it plays what its opponent
\* played in their latest earlier encounter, Cooperate if there was none;
\* what it records as the opponent's action is what the opponent played,
\* forced or not. So a user forced to Defect in the first encounter meets
\* Cooperate in that round and Defect in the next.
C14_TitForTatMirrors ==
    [][(last_op' = "step" /\ "TFT" \in DOMAIN agent) =>
          LET before == HistoryWith("TFT", "USER")
              after == agent'["TFT"].memory["USER"]
          IN /\ Len(after.opp_actions) = Len(before.opp_actions) + 1
             /\ Last(after.opp_actions) = ReportedAction(report', "USER")
             /\ Last(after.my_actions) = ReportedAction(report', "TFT")
             /\ "USER" \in DOMAIN overrides' =>
                    ReportedAction(report', "USER") = overrides'["USER"]
             /\ "TFT" \notin DOMAIN overrides' =>
                    ReportedAction(report', "TFT") =
                       IF before.opp_actions = <<>> THEN C
                       ELSE Last(before.opp_actions)]_vars

\* the user was forced to Defect in the first round, where TitForTat
\* cooperated; in the second round TitForTat, deciding, defects
C14_Witness ==
    /\ "TFT" \in DOMAIN agent /\ last_op = "step" /\ steps = 2
    /\ "TFT" \notin DOMAIN overrides
    /\ HistoryWith("TFT", "USER").my_actions = <<C, D>>
    /\ HistoryWith("TFT", "USER").opp_actions[1] = D
    /\ ReportedAction(report, "TFT") = D

(* ------------------------------ C15 ----------------------------------- *)

\* the classes said to open with Defect
OpensWithDefect == {"AlwaysDefect", "SuspiciousTitForTat", "Prober", "Tester"}

\* an Alternator constructed with start_with_C false
StartsOnDefect(a) == a.kind = "Alternator" /\ ~a.start_with_C

\* the agents an overrides argument of the run can name
Forceable(ag) == UNION {DOMAIN ov : ov \in DuelOverrides(ag)}

\* Agent n has no recorded interaction with o; in a run without reset that
\* is: n never met o
NoRecord(n, o) == HistoryWith(n, o).my_actions = <<>>

\* For every agent n and every name o it has no record of (the other roster
\* agent before the first round, a name outside the roster at any time),
\* last_with(o) is (None, None, None) and a deterministic n decides
\* first(n) against o; the action an unforceable n played in its first
\* round is first(n) as well.
FirstEncounter(first(_)) ==
    \A n \in DOMAIN agent :
        /\ \A o \in ((DOMAIN agent) \ {n}) \cup {Ghost} :
              NoRecord(n, o) =>
                 /\ LastWith(agent[n], o) = <<None, None, None>>
                 /\ agent[n].kind \notin StochasticKinds =>
                        Decide(agent[n], o, 0).act = first(agent[n])
        /\ \A o \in (DOMAIN agent) \ {n} :
              (~NoRecord(n, o) /\ n \notin Forceable(agent)) =>
                 HistoryWith(n, o).my_actions[1] = first(agent[n])

\* C15 as stated: the first-encounter default is Defect for AlwaysDefect,
\* SuspiciousTitForTat, Prober and Tester and Cooperate for every other
\* deterministic strategy and for the UserAgent.
C15_DefaultsAsListed ==
    FirstEncounter(LAMBDA a : IF a.kind \in OpensWithDefect THEN D ELSE C)

\* C15: last_with on an opponent never met returns (None, None, None), and
\* decide against it returns Defect for AlwaysDefect, SuspiciousTitForTat,
\* Prober, Tester and an Alternator constructed with start_with_C false,
\* Cooperate for every other deterministic strategy and for a UserAgent
\* with no injected action.
C15_DefaultsWithAlternatorPhase ==
    FirstEncounter(LAMBDA a : IF a.kind \in OpensWithDefect \/ StartsOnDefect(a)
                              THEN D ELSE C)

\* an Alternator built with start_with_C false opened with Defect against
\* the user, has played three rounds, and would open with Defect against a
\* newcomer too
C15_Witness ==
    /\ "ALT" \in DOMAIN agent /\ StartsOnDefect(agent["ALT"])
    /\ Len(HistoryWith("ALT", "USER").my_actions) >= 3
    /\ HistoryWith("ALT", "USER").my_actions[1] = D
    /\ NoRecord("ALT", Ghost)
    /\ Decide(agent["ALT"], Ghost, 0).act = D

(* ------------------------------ C16 ----------------------------------- *)

\* C16: constructing a Simulator on a roster of odd size raises at
\* construction: there is no Simulator object, and neither step() nor
\* preview_pairs() (nor reset()) is ever run on such a roster.
C16_OddRosterNeverRuns ==
    Cardinality(DOMAIN agent) % 2 = 1 =>
        /\ sim = AssertionError
        /\ sim2 = AssertionError
        /\ last_op = "init"
        /\ steps = 0 /\ previews = 0 /\ resets = 0
        /\ report = None /\ preview = <<>>

\* construction was attempted on a roster of three agents and raised
C16_Witness ==
    /\ Cardinality(DOMAIN agent) = 3
    /\ ~Constructed(sim)
    /\ last_op = "init"

(* ------------------------------ C17 ----------------------------------- *)

\* C17: every draw of a step, the strategies' coin flips included, is taken
\* from self.rng in a fixed order; so the Simulator (its rng state is part
\* of it), the agents and the overrides decide the round: whatever the
\* module-level generator would hand out, step() returns the same report
\* and leaves the same Simulator and agents.
C17_EveryDrawFromOwnSource ==
    [][last_op' = "step" =>
          \A us \in DrawChoices(agent) :
              \A r \in {StepOp(sim, agent, overrides', us)} :
                  r.report = report' /\ r.sim = sim' /\ r.agent = agent']_vars

(* ------------------------------ C18 ----------------------------------- *)

\* pairs is the roster shuffled by the generator in state x and cut into
\* consecutive pairs
FreshPairing(pairs, agents, x) ==
    pairs = MakeRandomPairs(agents, x).pairs

\* C18: the pairing a step uses is the previous step's pairing as it stands
\* (no shuffle was made) or a fresh shuffle of the roster; it is fresh when
\* last_pairs is empty (first step after construction or reset, any delta)
\* and when delta = 0; with delta = 1 a step made with last_pairs non-empty
\* reuses it; after the step last_pairs is the pairing the step used.
C18_ReuseOrFreshPairing ==
    [][last_op' = "step" =>
          LET reused == "shuffle" \notin SeqToSet(drawn')
          IN /\ sim'.last_pairs = ReportedPairs(report')
             /\ IF reused THEN sim.last_pairs # <<>> /\ sim'.last_pairs = sim.last_pairs
                ELSE FreshPairing(sim'.last_pairs, sim.agents,
                                  IF sim.last_pairs = <<>> THEN sim.rng
                                  ELSE Random(sim.rng).rng)
             /\ sim.last_pairs = <<>> => ~reused
             /\ sim.delta = 0 => ~reused
             /\ (sim.delta = Scale /\ sim.last_pairs # <<>>) => reused]_vars

\* with delta = 1 the second round reused the first round's pairing of four
\* agents
C18_Witness ==
    /\ last_op = "step" /\ sim.round = 2 /\ sim.delta = Scale
    /\ Len(sim.agents) = 4
    /\ drawn = <<"random">>
    /\ ReportedPairs(report) = sim.last_pairs

(* ------------------------------ C19 ----------------------------------- *)

\* the number of rounds agent a has recorded, over all its opponents
RoundsRecorded(a) ==
    Cardinality(UNION { {o} \X (1..Len(a.memory[o].my_actions)) : o \in DOMAIN a.memory })

\* every per-round tally and series of s stands at s.round
TalliesAtRound(s, ag) ==
    /\ Len(s.coop_rates) = s.round
    /\ Len(s.per_round_avg_all) = s.round
    /\ \A n \in NameSet(s.agents) :
          /\ DictGet(s.action_counts, n, [C |-> 0, D |-> 0])[C]
                + DictGet(s.action_counts, n, [C |-> 0, D |-> 0])[D] = s.round
          /\ RoundsRecorded(ag[n]) = s.round
          /\ Len(s.per_agent_cumavg[n]) = s.round

\* C19: the round counter is 0 after construction and after reset() and
\* grows by one with each step(), whose report carries the new value;
\* preview_pairs() leaves it. At every moment each agent's Cooperate and
\* Defect tallies add up to the counter, so do the lengths of its dyad
\* histories (one observe per agent per round), and its cumulative-average
\* series, the cooperation-rate series and the round-average series have
\* that length.
C19_CountsFollowRounds ==
    [][/\ TalliesAtRound(sim, agent)
       /\ TalliesAtRound(sim', agent')
       /\ last_op = "init" => sim.round = 0
       /\ last_op' = "step" => (sim'.round = sim.round + 1 /\ report'.round = sim'.round)
       /\ last_op' = "reset" => sim'.round = 0
       /\ last_op' = "preview" => sim'.round = sim.round]_vars

\* four agents: the first round after a reset that followed one round
C19_Witness ==
    /\ last_op = "step" /\ resets = 1 /\ steps = 2
    /\ sim.round = 1 /\ report.round = 1
    /\ Len(sim.agents) = 4
    /\ \A n \in DOMAIN agent : RoundsRecorded(agent[n]) = 1

(* ------------------------------ C20 ----------------------------------- *)

\* a's history for b in the agent objects ag (empty if a has none)
HistoryIn(ag, a, b) == DictGet(ag[a].memory, b, DyadHistory)

\* for all a, b: the three sequences of a's history for b are equally long
\* and a's history for b mirrors b's for a
AlignedAndMirrored(ag) ==
    \A a \in DOMAIN ag : \A b \in (DOMAIN ag) \ {a} :
        LET h == HistoryIn(ag, a, b)
            g == HistoryIn(ag, b, a)
        IN /\ Len(h.my_actions) = Len(h.opp_actions)
           /\ Len(h.my_actions) = Len(h.my_payoffs)
           /\ h.my_actions = g.opp_actions
           /\ h.opp_actions = g.my_actions
           /\ DOMAIN ag[a].memory \subseteq (DOMAIN ag) \ {a}

\* new is old, or old with one element appended
SameOrOneMore(old, new) ==
    /\ Len(new) \in {Len(old), Len(old) + 1}
    /\ SubSeq(new, 1, Len(old)) = old

\* C20: for all agents a, b: a's own actions, opponent actions and payoffs
\* recorded for b are equally long and mirror b's record for a; apart from
\* reset() a call changes them only by appending one element to each.
C20_HistoriesAlignedAppendOnly ==
    [][/\ AlignedAndMirrored(agent)
       /\ AlignedAndMirrored(agent')
       /\ last_op' # "reset" =>
             \A a \in DOMAIN agent : \A b \in (DOMAIN agent) \ {a} :
                 LET h == HistoryIn(agent, a, b)
                     k == HistoryIn(agent', a, b)
                 IN /\ SameOrOneMore(h.my_actions, k.my_actions)
                    /\ SameOrOneMore(h.opp_actions, k.opp_actions)
                    /\ SameOrOneMore(h.my_payoffs, k.my_payoffs)
                    /\ Len(k.my_actions) - Len(h.my_actions)
                          = Len(k.opp_actions) - Len(h.opp_actions)
                    /\ Len(k.my_actions) - Len(h.my_actions)
                          = Len(k.my_payoffs) - Len(h.my_payoffs)]_vars

\* four agents: the Alternator met the same opponent twice, and both
\* recorded its Cooperate and then its Defect
C20_Witness ==
    /\ Len(sim.agents) = 4 /\ last_op = "step"
    /\ \E b \in DOMAIN agent :
          /\ HistoryIn(agent, "ALT", b).my_actions = <<C, D>>
          /\ HistoryIn(agent, b, "ALT").opp_actions = <<C, D>>

(* ------------------------------ C21 ----------------------------------- *)

\* the fields in which a strategy keeps state of its own per opponent name
PerOpponentFields ==
    {"punish_left", "count", "mode", "contrite", "punish_count", "remaining", "repairing"}

\* what agent object a holds for opponent y in those fields
PrivateFor(a, y) ==
    [f \in (DOMAIN a) \cap PerOpponentFields |->
        IF y \in DOMAIN a[f] THEN <<a[f][y]>> ELSE <<>>]

\* agent object a without anything it holds for opponents other than x
OnlyAbout(a, x) ==
    [f \in DOMAIN a |->
        IF f \in PerOpponentFields \cup {"memory"}
        THEN [k \in (DOMAIN a[f]) \cap {x} |-> a[f][k]]
        ELSE a[f]]

\* the round a played against x, reported with action m for a: what a holds
\* for any third agent y is as before; a's private fields are as a's own
\* decide against x leaves them (x's decide wrote nothing into them), or as
\* before if a was forced; an unforced a played what its decide returns
\* when it knows of no opponent but x.
RoundTouchesOnlyTheDyad(a, x, m) ==
    /\ \A y \in (DOMAIN agent) \ {a, x} :
          /\ (y \in DOMAIN agent'[a].memory) = (y \in DOMAIN agent[a].memory)
          /\ HistoryIn(agent', a, y) = HistoryIn(agent, a, y)
          /\ PrivateFor(agent'[a], y) = PrivateFor(agent[a], y)
    /\ Private(agent'[a]) =
          IF a \in DOMAIN overrides' THEN Private(agent[a])
          ELSE Private(Decide(agent[a], x, 0).self)
    /\ a \notin DOMAIN overrides' => m = Decide(OnlyAbout(agent[a], x), x, 0).act

\* C21: a round of agent A against X leaves A's history and private state
\* for every other opponent Y unchanged and X's private state untouched by
\* A's decide, and a deterministic A's action against X depends on nothing
\* but A's history and private state for X.
C21_OpponentsAreIndependent ==
    [][last_op' = "step" =>
          \A i \in 1..Len(report'.pairs) :
              LET t == report'.pairs[i]
              IN /\ RoundTouchesOnlyTheDyad(t[1], t[3], t[2])
                 /\ RoundTouchesOnlyTheDyad(t[3], t[1], t[4])]_vars

\* Gradual or SoftGrudger, still counting down a punishment of one opponent,
\* has just cooperated with another
C21_Witness ==
    /\ last_op = "step"
    /\ \E a \in {"SG2", "Gradual"} \cap DOMAIN agent :
          \E x, y \in (DOMAIN agent) \ {a} :
              /\ x # y
              /\ \E i \in 1..Len(report.pairs) :
                    ReportedPairs(report)[i] \in {<<a, x>>, <<x, a>>}
              /\ ReportedAction(report, a) = C
              /\ \/ a = "SG2" /\ DictGet(agent[a].punish_left, y, 0) > 0
                 \/ a = "Gradual" /\ DictGet(agent[a].remaining, y, 0) > 0

(* ------------------------------ C22 ----------------------------------- *)

\* the agent object a constructor call with a's class and parameters gives
FreshlyBuilt(a) ==
    [f \in DOMAIN a |->
        IF f \in PerOpponentFields \cup {"memory"} THEN EmptyDict
        ELSE IF f = "score" THEN 0
        ELSE a[f]]

\* C22: right after reset() every agent's decide against every opponent
\* returns what a freshly constructed agent of its class and parameters
\* returns on a first encounter (for the same coin value, where it flips one).
C22_ResetRestoresFirstEncounter ==
    last_op = "reset" =>
        \A n \in DOMAIN agent : \A o \in (DOMAIN agent) \ {n} :
            \A u \in 0..(Scale - 1) :
                Decide(agent[n], o, u).act = Decide(FreshlyBuilt(agent[n]), o, u).act

(* ------------------------------ C23 ----------------------------------- *)

\* C23: Joss cooperates on the first encounter, defects after the
\* opponent's Defect, and after the opponent's Cooperate defects only if
\* its own last action against that opponent was Cooperate too: after its
\* own Defect met by Cooperate it cooperates.
C23_JossDefectsOnlyAfterMutualCooperation ==
    "Joss" \in DOMAIN agent =>
        LET ma == HistoryWith("Joss", "USER").my_actions
            oa == HistoryWith("Joss", "USER").opp_actions
        IN \A i \in 1..Len(ma) :
              /\ i = 1 => ma[i] = C
              /\ (i > 1 /\ oa[i - 1] = D) => ma[i] = D
              /\ (i > 1 /\ oa[i - 1] = C /\ ma[i - 1] = D) => ma[i] = C

(* ------------------------------ C24 ----------------------------------- *)

\* ma ends with exactly k Defects followed by one Cooperate
EndsPunishmentOf(ma, k) ==
    LET n == Len(ma)
    IN /\ k >= 1 /\ n >= k + 1
       /\ ma[n] = C
       /\ \A i \in (n - k)..(n - 1) : ma[i] = D
       /\ (n - k - 1 >= 1) => ma[n - k - 1] = C

\* C24: Gradual's punishment counter for an opponent equals the number of
\* Defects recorded from that opponent, those played while Gradual was
\* punishing or repairing included (a Defect of the latest round is counted
\* by the next decide at the latest); a punishment during which the
\* opponent cooperated lasts as many Defect rounds as the counter's value,
\* and is followed by two Cooperate rounds.
C24_GradualCountsEveryDefect ==
    "Gradual" \in DOMAIN agent =>
        LET ma == HistoryWith("Gradual", "USER").my_actions
            oa == HistoryWith("Gradual", "USER").opp_actions
            n == Len(oa)
            counter == DictGet(agent["Gradual"].punish_count, "USER", 0)
        IN /\ counter \in {Count(oa, D), Count(SubSeq(oa, 1, n - 1), D)}
           /\ \A k \in 1..n :
                 (EndsPunishmentOf(ma, k) /\ QuietBetween(oa, n - k, n))
                 => k = counter
           /\ \A i \in 1..(n - 2) :
                 (ma[i] = D /\ ma[i + 1] = C) => ma[i + 2] = C

(* ------------------------------ C25 ----------------------------------- *)

\* the number of Defects ma ends with
TrailingDefects(ma) ==
    CHOOSE r \in 0..Len(ma) :
        /\ \A i \in (Len(ma) - r + 1)..Len(ma) : ma[i] = D
        /\ (r < Len(ma)) => ma[Len(ma) - r] = C

\* position s opens a run of Defects in ma that reaches position e
DefectRun(ma, s, e) ==
    /\ 1 <= s /\ s <= e /\ e <= Len(ma)
    /\ \A i \in s..e : ma[i] = D
    /\ (s > 1) => ma[s - 1] = C

\* C25: SoftGrudger(k), k >= 1, cooperates exactly when its default logic
\* runs and the opponent's latest action was not Defect (first encounter
\* included); when the default logic sees a Defect it defects in exactly k
\* consecutive decisions whatever the opponent plays meanwhile, the
\* countdown going down by one per decision, and then the default logic
\* runs again: every finished run of Defects is a whole number of
\* k-blocks, each opened by a Defect of the opponent in the round before.
C25_SoftGrudgerPunishesExactlyK ==
    \A a \in {x \in DOMAIN agent : agent[x].kind = "SoftGrudger"} :
        LET ma == HistoryWith(a, "USER").my_actions
            oa == HistoryWith(a, "USER").opp_actions
            k == agent[a].punish_rounds
            left == DictGet(agent[a].punish_left, "USER", 0)
        IN /\ k >= 1
           /\ \A i \in 1..Len(ma) : ma[i] = C => (i = 1 \/ oa[i - 1] = C)
           /\ \A s \in 1..Len(ma) : \A e \in s..Len(ma) :
                 DefectRun(ma, s, e) =>
                    /\ s > 1
                    /\ ((e - s) % k = 0) => oa[e - 1] = D
                    /\ (e < Len(ma) /\ ma[e + 1] = C) => (e - s + 1) % k = 0
           /\ left = (k - (TrailingDefects(ma) % k)) % k

\* SoftGrudger(3): the user defected once and then cooperated; the three
\* Defects that followed are over and SoftGrudger cooperates again
C25_Witness ==
    /\ "SG3" \in DOMAIN agent
    /\ Len(HistoryWith("SG3", "USER").my_actions) >= 5
    /\ SubSeq(HistoryWith("SG3", "USER").opp_actions, 1, 4) = <<D, C, C, C>>
    /\ SubSeq(HistoryWith("SG3", "USER").my_actions, 1, 5) = <<C, D, D, D, C>>

(* ------------------------------ C26 ----------------------------------- *)

\* the opponent defected in the 2nd or 3rd encounter recorded in oa
RetaliatedInProbe(oa) == \E i \in {2, 3} : i <= Len(oa) /\ oa[i] = D

\* Prober opened with D, C, C; from the 4th encounter on it mirrors the
\* opponent's previous action if the opponent defected in the 2nd or 3rd
\* encounter and defects otherwise; its mode for the opponent is unset
\* before the 4th encounter and is that choice from then on
ProberAsSpecified(a) ==
    LET ma == DictGet(a.memory, "USER", DyadHistory).my_actions
        oa == DictGet(a.memory, "USER", DyadHistory).opp_actions
    IN /\ \A i \in 1..Len(ma) :
             ma[i] = IF i = 1 THEN D
                     ELSE IF i \in {2, 3} THEN C
                     ELSE IF RetaliatedInProbe(oa) THEN oa[i - 1]
                     ELSE D
       /\ IF Len(ma) >= 4
          THEN /\ "USER" \in DOMAIN a.mode
               /\ a.mode["USER"] = IF RetaliatedInProbe(oa) THEN "tft" ELSE "exploit"
          ELSE "USER" \notin DOMAIN a.mode

\* C26: Prober plays Defect, Cooperate, Cooperate in its first three
\* encounters whatever the opponent does; at the fourth it fixes its mode:
\* Tit-for-Tat if the opponent defected in the 2nd or 3rd encounter, always
\* Defect otherwise; a mode once set is never changed.
C26_ProberProbesThenFixesMode ==
    [][(last_op' = "step" /\ "PROB" \in DOMAIN agent) =>
          /\ ProberAsSpecified(agent["PROB"])
          /\ ProberAsSpecified(agent'["PROB"])
          /\ "USER" \in DOMAIN agent["PROB"].mode =>
                agent'["PROB"].mode = agent["PROB"].mode]_vars

\* the user defected in the 3rd encounter only; Prober, in Tit-for-Tat mode
\* since the 4th, answered that Defect and then cooperated again
C26_Witness ==
    /\ "PROB" \in DOMAIN agent
    /\ HistoryWith("PROB", "USER").opp_actions = <<C, C, D, C, C, C>>
    /\ HistoryWith("PROB", "USER").my_actions = <<D, C, C, D, C, C>>
    /\ agent["PROB"].mode["USER"] = "tft"

(* ------------------------------ C27 ----------------------------------- *)

\* Tester opened with D; from the 2nd encounter on it mirrors the
\* opponent's previous action if the opponent defected in the first
\* encounter and defects otherwise; its mode for the opponent is unset
\* before the 2nd encounter and is that choice from then on
TesterAsSpecified(a) ==
    LET ma == DictGet(a.memory, "USER", DyadHistory).my_actions
        oa == DictGet(a.memory, "USER", DyadHistory).opp_actions
    IN /\ \A i \in 1..Len(ma) :
             ma[i] = IF i = 1 THEN D
                     ELSE IF oa[1] = D THEN oa[i - 1]
                     ELSE D
       /\ IF Len(ma) >= 2
          THEN /\ "USER" \in DOMAIN a.mode
               /\ a.mode["USER"] = IF oa[1] = D THEN "tft" ELSE "exploit"
          ELSE "USER" \notin DOMAIN a.mode

\* C27: Tester defects on its first encounter; at the second encounter it
\* chooses its mode from what the opponent played meanwhile (the
\* opponent's action of the first encounter): Tit-for-Tat if that was
\* Defect, always Defect otherwise; the mode chosen never changes.
C27_TesterTestsThenFixesMode ==
    [][(last_op' = "step" /\ "Tester" \in DOMAIN agent) =>
          /\ TesterAsSpecified(agent["Tester"])
          /\ TesterAsSpecified(agent'["Tester"])
          /\ "USER" \in DOMAIN agent["Tester"].mode =>
                agent'["Tester"].mode = agent["Tester"].mode]_vars

\* the user defected in the first encounter and cooperated afterwards:
\* Tester, in Tit-for-Tat mode, defected twice and cooperates since
C27_Witness ==
    /\ "Tester" \in DOMAIN agent
    /\ Len(HistoryWith("Tester", "USER").my_actions) >= 4
    /\ SubSeq(HistoryWith("Tester", "USER").opp_actions, 1, 3) = <<D, C, C>>
    /\ SubSeq(HistoryWith("Tester", "USER").my_actions, 1, 4) = <<D, D, C, C>>
    /\ agent["Tester"].mode["USER"] = "tft"

(* ------------------------------ C28 ----------------------------------- *)

\* on the history agent object a has, its decide returns the action
\* TitForTat.decide returns on that history, and no contrition is pending
DecidesAsTitForTat(a) ==
    /\ Decide(a, "USER", 0).act = DecideTitForTat(a, "USER", 0).act
    /\ DictGet(a.contrite, "USER", FALSE) = FALSE

\* C28: on every history of rounds against an opponent (rounds in which
\* either side was forced included) ContriteTitForTat's decide returns the
\* action TitForTat's decide returns on that history, and an unforced
\* ContriteTitForTat plays it.
C28_ContriteIsTitForTat ==
    [][(last_op' = "step" /\ "CTFT" \in DOMAIN agent) =>
          /\ DecidesAsTitForTat(agent["CTFT"])
          /\ DecidesAsTitForTat(agent'["CTFT"])
          /\ "CTFT" \notin DOMAIN overrides' =>
                ReportedAction(report', "CTFT")
                   = DecideTitForTat(agent["CTFT"], "USER", 0).act]_vars

\* ContriteTitForTat defected last and the user cooperated, the one case
\* in which it enters contrition: decide cooperates, as mirroring does
C28_Witness ==
    /\ "CTFT" \in DOMAIN agent /\ last_op = "step"
    /\ "CTFT" \notin DOMAIN overrides
    /\ Len(HistoryWith("CTFT", "USER").my_actions) >= 3
    /\ LET ma == HistoryWith("CTFT", "USER").my_actions
           oa == HistoryWith("CTFT", "USER").opp_actions
           n == Len(ma)
       IN ma[n - 1] = D /\ oa[n - 1] = C /\ ma[n] = C

====
